---- MODULE Spec2Model ----
(***************************************************************************)
(* Model of the tool-calling conversation loop of the mwb AI processor     *)
(* (src/src/ai/mod.rs) and of the two services it drives                   *)
(* (src/src/ai/tools.rs).                                                  *)
(*                                                                         *)
(* One action of the model is one stretch of AIProcessor::process_episodes *)
(* between two suspension points (.await): the arrival of an LLM response, *)
(* of a search tier response or of a fetched page, together with           *)
(* everything the code does synchronously after it, up to and including    *)
(* the start of the next network request or the return of the run.         *)
(***************************************************************************)
EXTENDS Integers, Sequences, FiniteSets, TLC

(* ------------------------------ bounds -------------------------------- *)

\* Largest number of episodes handed to process_episodes.
MaxEpisodes == 2

\* Largest number of exchanges (a function call with its response, or a
\* rejected text with its corrective turn) a run is explored to.
MaxExchanges == 4

(* -------------------------- program constants ------------------------- *)

\* let max_iterations = 8;
max_iterations == 8

\* names of the three function declarations of create_tools
SearchTool == "perform_google_search"
ReadTool == "read_website_content"
PlaylistTool == "create_vlc_playlist"

create_tools == {SearchTool, ReadTool, PlaylistTool}

\* tool names the LLM may put into a function call: the three registered
\* ones and one that is not registered
CallNames == create_tools \cup {"unregistered_tool"}

\* argument names a function call may carry with a value of the expected type
ArgSets ==
    {{}, {"query"}, {"url"}, {"episodes"}, {"playlist_name"},
     {"episodes", "playlist_name"}}

\* outcomes of call_gemini_api that are an Err
LlmFailures ==
    {"LlmTransport", "LlmStatus", "LlmStatus401", "LlmStatus403",
     "LlmStatus429Key", "LlmStatus403Quota", "LlmDecode"}

\* outcomes of the tier-1 request (instant answer API) of perform_google_search
Tier1Outcomes == {"transport_error", "unparsable", "empty", "usable"}

\* outcomes of the tier-2 request (results page) of perform_google_search
Tier2Outcomes == {"transport_error", "unreadable", "zero_blocks", "blocks"}

\* outcomes of the page fetch and extraction of read_website_content
FetchOutcomes ==
    {"transport_error", "http_status", "http_401", "http_429", "body_error",
     "no_content", "content", "long_content"}

\* outcomes of File::create / write_all in create_vlc_playlist
FileOutcomes == {"create_failed", "write_failed", "written"}

(* ------------------------------- state -------------------------------- *)

VARIABLES
    pc,                    \* where the run is suspended, or "idle" / "done"
    conversation_history,  \* Vec<Content> of the run
    iteration,             \* loop variable of process_episodes
    request,               \* the GeminiRequest sent last
    requestsSent,          \* calls of call_gemini_api in this run
    call,                  \* the ResponseFunctionCall dispatched last
    lastResp,              \* shape of the LLM response handled last
    toolResult,            \* result_string of the last tool that returned Ok
    SEARCH_TOOL_USED,      \* the process environment variable of that name
    result,                \* what process_episodes returned
    searchSucceeded,       \* a search invocation returned Ok in this run
    servicesInvoked,       \* service functions entered in this run
    pagesFetched,          \* page requests sent by read_website_content
    lastText,              \* text of the response handled last, if a Text
    content_parts,         \* content.parts of the response in hand
    shown,                 \* what the run has reported to the user
    in_flight,             \* network requests sent and not yet returned
    results_is_empty,      \* results.is_empty() of the run
    playlist_effects,      \* what the step did to the file system and to
                           \* processes, in create_vlc_playlist
    query,                 \* perform_google_search: its argument
    ddg_response,          \* perform_google_search: answer to the tier-1 request
    html_response,         \* perform_google_search: answer to the tier-2 request
    search_out,            \* perform_google_search: what it returned
    page,                  \* read_website_content: the url and what it serves
    read_out,              \* read_website_content: what it returned
    host,                  \* extract_main_content: url.host_str()
    tried,                 \* extract_main_content: elements each selector kept
    extracted_text,        \* extract_main_content: the Vec of that name
    generic,               \* extract_main_content: the paragraph extraction
    extract_out,           \* extract_main_content: what it returned
    search_results,        \* format_episodes_for_ai: its argument
    episodes_json,         \* format_episodes_for_ai: what it returned
    block_text,            \* the block filter: the text of an element
    block_kept             \* the block filter: whether it passes

\* the variables of the checks of the two service functions on their own
\* the variables of a run of process_episodes
runVars ==
    <<pc, conversation_history, iteration, request, requestsSent, call,
      lastResp, toolResult, SEARCH_TOOL_USED, result, searchSucceeded,
      servicesInvoked, pagesFetched, lastText, content_parts, shown,
      in_flight, results_is_empty, playlist_effects>>

extractVars == <<host, tried, extracted_text, generic, extract_out>>
formatVars == <<search_results, episodes_json>>
filterVars == <<block_text, block_kept>>
pureVars ==
    <<query, ddg_response, html_response, search_out, page, read_out,
      extractVars, formatVars, filterVars>>

vars ==
    <<pc, conversation_history, iteration, request, requestsSent, call,
      lastResp, toolResult, SEARCH_TOOL_USED, result, searchSucceeded,
      servicesInvoked, pagesFetched, lastText, content_parts, shown,
      in_flight, results_is_empty, playlist_effects,
      pureVars>>

\* a text is the sequence of its characters; no text
NoText == <<>>

\* a service function that is not under check
Unused == [status |-> "unused"]

\* the result of a call under check that has not returned yet
Pending == [status |-> "pending"]

\* struct Content { role, parts }, with the single part of every turn the
\* code builds: its variant and, for a function part, the function name (for a
\* text part, which text it is)
Content(role, kind, name) == [role |-> role, kind |-> kind, name |-> name]

NoCall == [name |-> "none", args |-> {}]
NoRequest == [contents |-> <<>>, tools |-> {}]
NoResult == [status |-> "none", value |-> "none"]
Ok(v) == [status |-> "ok", value |-> v]
Err(e) == [status |-> "err", value |-> e]

\* Parameters::required of the function declarations of create_tools
required(name) ==
    CASE name = SearchTool -> {"query"}
      [] name = ReadTool -> {"url"}
      [] name = PlaylistTool -> {"episodes", "playlist_name"}

\* let tools = self.create_tools(): the function declarations
tools == {[name |-> name, required |-> required(name)] : name \in create_tools}

\* variant: only the last turn of the history is sent
GeminiRequestLastTurn(h) ==
    [contents |-> SubSeq(h, Len(h), Len(h)), tools |-> tools]

\* let request = GeminiRequest { contents: conversation_history.clone(),
\*                               tools: tools.clone(), .. }
GeminiRequest(h) == [contents |-> h, tools |-> tools]

\* the texts a response is explored with: with and without "playlist", in
\* lower and in mixed case, a proper prefix of it, and the empty text
Texts ==
    { <<"p", "l", "a", "y", "l", "i", "s", "t">>,
      <<"a", " ", "P", "l", "a", "y", "L", "i", "s", "T", ".">>,
      <<"d", "o", "n", "e">>,
      <<"P", "L", "A", "Y">>,
      <<>> }

\* char::to_lowercase of the characters the texts are made of
LowerChar(c) ==
    CASE c = "A" -> "a" [] c = "B" -> "b" [] c = "C" -> "c" [] c = "D" -> "d"
      [] c = "E" -> "e" [] c = "F" -> "f" [] c = "G" -> "g" [] c = "H" -> "h"
      [] c = "I" -> "i" [] c = "J" -> "j" [] c = "K" -> "k" [] c = "L" -> "l"
      [] c = "M" -> "m" [] c = "N" -> "n" [] c = "O" -> "o" [] c = "P" -> "p"
      [] c = "Q" -> "q" [] c = "R" -> "r" [] c = "S" -> "s" [] c = "T" -> "t"
      [] c = "U" -> "u" [] c = "V" -> "v" [] c = "W" -> "w" [] c = "X" -> "x"
      [] c = "Y" -> "y" [] c = "Z" -> "z"
      [] OTHER -> c

\* variant: the case of the text is kept
KeepCase(t) == t

\* str::to_lowercase
to_lowercase(t) == [i \in 1..Len(t) |-> LowerChar(t[i])]

\* str::contains: pat occurs in t as a contiguous run of characters
contains(t, pat) ==
    \E i \in 0..(Len(t) - Len(pat)) :
        \A k \in 1..Len(pat) : t[i + k] = pat[k]

\* the pattern of the acceptance test
playlist == <<"p", "l", "a", "y", "l", "i", "s", "t">>

(* --------------------------- response parts --------------------------- *)

\* enum ResponsePart { Text { text }, FunctionCall { function_call } }
TextPart(t) == [kind |-> "Text", text |-> t, name |-> "none", args |-> {}]
CallPart(n, a) == [kind |-> "FunctionCall", text |-> NoText, name |-> n, args |-> a]

\* what may follow the first part of a response: nothing, or a text that
\* would be accepted and a function call
TrailingParts ==
    {<<>>, <<TextPart(playlist), CallPart(SearchTool, {"query"})>>}

\* the response is in hand while the tool it calls is executed; it is
\* dropped when the loop goes on to its next iteration or the run returns
Held(ps) == IF pc' \in {"tier1", "tier2", "fetch"} THEN ps ELSE <<>>

\* variant: the last part of the response is the one looked at
last(ps) == ps[Len(ps)]

\* content.parts.first(), of a response that has parts
first(ps) == ps[1]

(* ------------------------- reports to the user ------------------------ *)

\* Error::to_string of the errors a run returns: the texts of the anyhow!
\* calls, and of the reqwest and io errors passed on by `?`
Message(e) ==
    CASE e = "NoResults" ->
           <<"N", "o", " ", "r", "e", "s", "u", "l", "t", "s", " ", "f",
             "o", "u", "n", "d", " ", "t", "o", " ", "p", "r", "o", "c",
             "e", "s", "s", " ", "w", "i", "t", "h", " ", "A", "I", ".">>
      [] e = "LlmTransport" ->
           <<"e", "r", "r", "o", "r", " ", "s", "e", "n", "d", "i", "n",
             "g", " ", "r", "e", "q", "u", "e", "s", "t">>
      [] e = "LlmStatus" ->
           <<"G", "e", "m", "i", "n", "i", " ", "A", "P", "I", " ", "e",
             "r", "r", "o", "r", " ", "5", "0", "0", " ", "I", "n", "t",
             "e", "r", "n", "a", "l", " ", "S", "e", "r", "v", "e", "r",
             " ", "E", "r", "r", "o", "r", ":", " ">>
      [] e = "LlmStatus401" ->
           <<"G", "e", "m", "i", "n", "i", " ", "A", "P", "I", " ", "e",
             "r", "r", "o", "r", " ", "4", "0", "1", " ", "U", "n", "a",
             "u", "t", "h", "o", "r", "i", "z", "e", "d", ":", " ">>
      [] e = "LlmStatus403" ->
           <<"G", "e", "m", "i", "n", "i", " ", "A", "P", "I", " ", "e",
             "r", "r", "o", "r", " ", "4", "0", "3", " ", "F", "o", "r",
             "b", "i", "d", "d", "e", "n", ":", " ">>
      [] e = "LlmStatus429Key" ->
           <<"G", "e", "m", "i", "n", "i", " ", "A", "P", "I", " ", "e",
             "r", "r", "o", "r", " ", "4", "2", "9", " ", "T", "o", "o",
             " ", "M", "a", "n", "y", " ", "R", "e", "q", "u", "e", "s",
             "t", "s", ":", " ", "q", "u", "o", "t", "a", " ", "o", "f",
             " ", "A", "P", "I", " ", "k", "e", "y">>
      [] e = "LlmStatus403Quota" ->
           <<"G", "e", "m", "i", "n", "i", " ", "A", "P", "I", " ", "e",
             "r", "r", "o", "r", " ", "4", "0", "3", " ", "F", "o", "r",
             "b", "i", "d", "d", "e", "n", ":", " ", "Q", "u", "o", "t",
             "a", " ", "e", "x", "c", "e", "e", "d", "e", "d">>
      [] e = "LlmDecode" ->
           <<"e", "r", "r", "o", "r", " ", "d", "e", "c", "o", "d", "i",
             "n", "g", " ", "r", "e", "s", "p", "o", "n", "s", "e", " ",
             "b", "o", "d", "y">>
      [] e = "OrderingViolation" ->
           <<"E", "R", "R", "O", "R", ":", " ", "Y", "o", "u", " ", "m",
             "u", "s", "t", " ", "u", "s", "e", " ", "p", "e", "r", "f",
             "o", "r", "m", "_", "g", "o", "o", "g", "l", "e", "_", "s",
             "e", "a", "r", "c", "h", " ", "B", "E", "F", "O", "R", "E",
             " ", "u", "s", "i", "n", "g", " ", "r", "e", "a", "d", "_",
             "w", "e", "b", "s", "i", "t", "e", "_", "c", "o", "n", "t",
             "e", "n", "t", ".">>
      [] e = "MissingQuery" ->
           <<"M", "i", "s", "s", "i", "n", "g", " ", "'", "q", "u", "e",
             "r", "y", "'", " ", "a", "r", "g", "u", "m", "e", "n", "t">>
      [] e = "MissingUrl" ->
           <<"M", "i", "s", "s", "i", "n", "g", " ", "'", "u", "r", "l",
             "'", " ", "a", "r", "g", "u", "m", "e", "n", "t">>
      [] e = "MissingEpisodes" ->
           <<"M", "i", "s", "s", "i", "n", "g", " ", "'", "e", "p", "i",
             "s", "o", "d", "e", "s", "'", " ", "a", "r", "g", "u", "m",
             "e", "n", "t">>
      [] e = "MissingPlaylistName" ->
           <<"M", "i", "s", "s", "i", "n", "g", " ", "'", "p", "l", "a",
             "y", "l", "i", "s", "t", "_", "n", "a", "m", "e", "'", " ",
             "a", "r", "g", "u", "m", "e", "n", "t">>
      [] e = "UnknownTool" ->
           <<"U", "n", "k", "n", "o", "w", "n", " ", "f", "u", "n", "c",
             "t", "i", "o", "n", ":", " ", "u", "n", "r", "e", "g", "i",
             "s", "t", "e", "r", "e", "d", "_", "t", "o", "o", "l">>
      [] e = "ClientBuild" ->
           <<"b", "u", "i", "l", "d", "e", "r", " ", "e", "r", "r", "o",
             "r">>
      [] e = "InvalidUrl" ->
           <<"I", "n", "v", "a", "l", "i", "d", " ", "U", "R", "L", ":",
             " ", "n", "o", " ", "u", "r", "l">>
      [] e = "FetchTransport" ->
           <<"e", "r", "r", "o", "r", " ", "s", "e", "n", "d", "i", "n",
             "g", " ", "r", "e", "q", "u", "e", "s", "t">>
      [] e = "HttpStatus" ->
           <<"H", "T", "T", "P", " ", "e", "r", "r", "o", "r", " ", "4",
             "0", "4", " ", "N", "o", "t", " ", "F", "o", "u", "n", "d",
             ":", " ", "h", "t", "t", "p", ":", "/", "/", "p", "a", "g",
             "e">>
      [] e = "HttpStatus401" ->
           <<"H", "T", "T", "P", " ", "e", "r", "r", "o", "r", " ", "4",
             "0", "1", " ", "U", "n", "a", "u", "t", "h", "o", "r", "i",
             "z", "e", "d", ":", " ", "h", "t", "t", "p", ":", "/", "/",
             "p", "a", "g", "e">>
      [] e = "HttpStatus429" ->
           <<"H", "T", "T", "P", " ", "e", "r", "r", "o", "r", " ", "4",
             "2", "9", " ", "T", "o", "o", " ", "M", "a", "n", "y", " ",
             "R", "e", "q", "u", "e", "s", "t", "s", ":", " ", "h", "t",
             "t", "p", ":", "/", "/", "p", "a", "g", "e">>
      [] e = "BodyRead" ->
           <<"e", "r", "r", "o", "r", " ", "d", "e", "c", "o", "d", "i",
             "n", "g", " ", "r", "e", "s", "p", "o", "n", "s", "e", " ",
             "b", "o", "d", "y">>
      [] e = "ExtractionFailure" ->
           <<"C", "o", "u", "l", "d", " ", "n", "o", "t", " ", "e", "x",
             "t", "r", "a", "c", "t", " ", "m", "e", "a", "n", "i", "n",
             "g", "f", "u", "l", " ", "c", "o", "n", "t", "e", "n", "t",
             " ", "f", "r", "o", "m", " ", "t", "h", "e", " ", "w", "e",
             "b", "p", "a", "g", "e">>
      [] e = "FileCreate" ->
           <<"P", "e", "r", "m", "i", "s", "s", "i", "o", "n", " ", "d",
             "e", "n", "i", "e", "d", " ", "(", "o", "s", " ", "e", "r",
             "r", "o", "r", " ", "1", "3", ")">>
      [] e = "FileWrite" ->
           <<"N", "o", " ", "s", "p", "a", "c", "e", " ", "l", "e", "f",
             "t", " ", "o", "n", " ", "d", "e", "v", "i", "c", "e", " ",
             "(", "o", "s", " ", "e", "r", "r", "o", "r", " ", "2", "8",
             ")">>
      [] e = "IterationLimit" ->
           <<"M", "a", "x", "i", "m", "u", "m", " ", "i", "t", "e", "r",
             "a", "t", "i", "o", "n", "s", " ", "r", "e", "a", "c", "h",
             "e", "d", " ", "w", "i", "t", "h", "o", "u", "t", " ", "f",
             "i", "n", "a", "l", " ", "a", "n", "s", "w", "e", "r">>
      [] OTHER ->   \* "Unexpected end of conversation loop"
           <<"U", "n", "e", "x", "p", "e", "c", "t", "e", "d", " ", "e",
             "n", "d", " ", "o", "f", " ", "c", "o", "n", "v", "e", "r",
             "s", "a", "t", "i", "o", "n", " ", "l", "o", "o", "p">>

\* the patterns of the two error classifications
Pat401 == <<"4", "0", "1">>
PatUnauthorized == <<"u", "n", "a", "u", "t", "h", "o", "r", "i", "z", "e", "d">>
PatApiKey == <<"a", "p", "i", " ", "k", "e", "y">>
Pat429 == <<"4", "2", "9">>
PatQuota == <<"q", "u", "o", "t", "a">>
PatRateLimit == <<"r", "a", "t", "e", " ", "l", "i", "m", "i", "t">>
Pat403 == <<"4", "0", "3">>
PatForbidden == <<"f", "o", "r", "b", "i", "d", "d", "e", "n">>

\* variant: the quota patterns are tried before the key patterns
handle_api_error_quota_first(e) ==
    LET error_msg == to_lowercase(Message(e))
    IN  IF \/ contains(error_msg, Pat429)
           \/ contains(error_msg, PatQuota)
           \/ contains(error_msg, PatRateLimit)
        THEN <<[by |-> "handle_api_error", class |-> "Quota"]>>
        ELSE IF \/ contains(error_msg, Pat401)
                \/ contains(error_msg, PatUnauthorized)
                \/ contains(error_msg, PatApiKey)
        THEN <<[by |-> "handle_api_error", class |-> "Auth"]>>
        ELSE IF contains(error_msg, Pat403) \/ contains(error_msg, PatForbidden)
        THEN <<[by |-> "handle_api_error", class |-> "Permission"]>>
        ELSE <<>>

\* AIProcessor::handle_api_error(&e): the guidance it prints, if any
handle_api_error(e) ==
    LET error_msg == to_lowercase(Message(e))
    IN  IF \/ contains(error_msg, Pat401)
           \/ contains(error_msg, PatUnauthorized)
           \/ contains(error_msg, PatApiKey)
        THEN <<[by |-> "handle_api_error", class |-> "Auth"]>>
        ELSE IF \/ contains(error_msg, Pat429)
                \/ contains(error_msg, PatQuota)
                \/ contains(error_msg, PatRateLimit)
        THEN <<[by |-> "handle_api_error", class |-> "Quota"]>>
        ELSE IF contains(error_msg, Pat403) \/ contains(error_msg, PatForbidden)
        THEN <<[by |-> "handle_api_error", class |-> "Permission"]>>
        ELSE <<>>

\* process_with_ai, the match on what process_episodes returned: the results
\* are printed, or the error is reported
process_with_ai(r) ==
    IF r.status = "ok"
    THEN <<[by |-> "process_with_ai", class |-> "Results"]>>
    ELSE LET error_msg == to_lowercase(Message(r.value))
         IN  IF \/ contains(error_msg, Pat401)
                \/ contains(error_msg, PatUnauthorized)
                \/ contains(error_msg, PatApiKey)
             THEN <<[by |-> "process_with_ai", class |-> "Auth"]>>
             ELSE IF \/ contains(error_msg, Pat429)
                     \/ contains(error_msg, PatQuota)
                     \/ contains(error_msg, PatRateLimit)
             THEN <<[by |-> "process_with_ai", class |-> "Quota"]>>
             ELSE <<[by |-> "process_with_ai", class |-> "Generic"]>>

\* the errors a run returns
ErrorKinds ==
    {"NoResults", "IterationLimit", "UnexpectedEnd"} \cup LlmFailures
    \cup {"OrderingViolation", "MissingQuery", "MissingUrl",
          "MissingEpisodes", "MissingPlaylistName", "UnknownTool"}
    \cup {"ClientBuild", "InvalidUrl", "FetchTransport", "HttpStatus",
          "HttpStatus401", "HttpStatus429", "BodyRead", "ExtractionFailure",
          "FileCreate", "FileWrite"}

\* handle_api_error and process_with_ai for each error, evaluated once
GuidanceFor == [e \in ErrorKinds |-> handle_api_error(e)]
ReportFor == [e \in ErrorKinds |-> process_with_ai(Err(e))]

\* variant: a request that returned is still counted as in flight
NotCompleted == in_flight

\* the request the run was suspended on has returned
Completed == in_flight \ {pc}

(* --------------------------- the loop's exits -------------------------- *)

\* return from process_episodes with r, after `printed` was printed; h is the
\* history at the return. process_with_ai reports what was returned.
ReturnAfter(h, r, printed) ==
    /\ pc' = "done"
    /\ conversation_history' = h
    /\ result' = r
    /\ shown' = shown \o printed
                 \o (IF r.status = "ok" THEN process_with_ai(r)
                     ELSE ReportFor[r.value])
    /\ in_flight' = Completed
    /\ UNCHANGED <<iteration, request, requestsSent>>

\* return from process_episodes with r; h is the history at the return
Return(h, r) == ReturnAfter(h, r, <<>>)

\* head of the next loop iteration: the request is assembled from the whole
\* history and sent; the run is suspended in call_gemini_api
NextRequest(h) ==
    /\ pc' = "llm"
    /\ conversation_history' = h
    /\ iteration' = iteration + 1
    /\ request' = GeminiRequest(h)
    /\ requestsSent' = requestsSent + 1
    /\ in_flight' = Completed \cup {"llm"}
    /\ UNCHANGED <<result, shown>>

\* variant: the history is cut down to its last two turns before the next
\* request
ContinueWithLastTurns(h) ==
    IF iteration < max_iterations
    THEN NextRequest(SubSeq(h, Len(h) - 1, Len(h)))
    ELSE Return(h, Err("UnexpectedEnd"))

\* `continue`: the check at the end of the loop body is skipped; after the
\* last iteration the for loop ends and the function returns its last line
Continue(h) ==
    IF iteration < max_iterations
    THEN NextRequest(h)
    ELSE Return(h, Err("UnexpectedEnd"))

\* variant: the limit check is off by one, a ninth request is sent
EndOfBodyOffByOne ==
    IF iteration > max_iterations
    THEN Return(conversation_history, Err("IterationLimit"))
    ELSE NextRequest(conversation_history)

\* the end of the loop body is reached: if iteration == max_iterations
EndOfBody ==
    IF iteration = max_iterations
    THEN Return(conversation_history, Err("IterationLimit"))
    ELSE NextRequest(conversation_history)

\* variant: the function call is recorded without the tool's response
PushCallOnly(name) ==
    conversation_history \o <<Content("model", "FunctionCall", name)>>

\* the two pushes that follow a tool that returned Ok
PushCallAndResponse(name) ==
    conversation_history \o
        <<Content("model", "FunctionCall", name),
          Content("user", "FunctionResponse", name)>>

\* variant: the corrective turn is pushed without the model's text turn
PushNudgeOnly(nudge) ==
    conversation_history \o <<Content("user", "Text", nudge)>>

\* the two pushes that follow a rejected text
PushTextAndNudge(nudge) ==
    conversation_history \o
        <<Content("model", "Text", "model_text"),
          Content("user", "Text", nudge)>>

\* one more exchange is explored
Fits == Len(conversation_history) + 2 <= 1 + 2 * MaxExchanges

(* ------------------------------- Init --------------------------------- *)

InitRun ==
    /\ pc = "idle"
    /\ conversation_history = <<>>
    /\ iteration = 0
    /\ request = NoRequest
    /\ requestsSent = 0
    /\ call = NoCall
    /\ lastResp = "none"
    /\ toolResult = "none"
    /\ SEARCH_TOOL_USED \in BOOLEAN   \* inherited from the environment
    /\ result = NoResult
    /\ searchSucceeded = FALSE
    /\ servicesInvoked = 0
    /\ pagesFetched = 0
    /\ lastText = NoText
    /\ content_parts = <<>>
    /\ shown = <<>>
    /\ in_flight = {}
    /\ results_is_empty = FALSE
    /\ playlist_effects = <<>>

\* extract_main_content and format_episodes_for_ai are not under check
NoExtract ==
    /\ host = Unused
    /\ tried = Unused
    /\ extracted_text = Unused
    /\ generic = Unused
    /\ extract_out = Unused

NoFormat ==
    /\ search_results = Unused
    /\ episodes_json = Unused

\* the block filter is not under check
NoFilter ==
    /\ block_text = Unused
    /\ block_kept = Unused

\* the state before the first run of a process
Init ==
    /\ InitRun
    /\ query = Unused
    /\ ddg_response = Unused
    /\ html_response = Unused
    /\ search_out = Unused
    /\ page = Unused
    /\ read_out = Unused
    /\ NoExtract
    /\ NoFormat
    /\ NoFilter

(* ------------------------------ actions ------------------------------- *)

\* variant: a list is never taken as empty
is_empty_never(n) == FALSE

\* results.is_empty(), for a list of n episodes
is_empty(n) == n = 0

\* process_episodes(results) with n = results.len(), up to the first request
process_episodes(n) ==
    /\ pc \in {"idle", "done"}
    /\ lastText' = NoText
    /\ content_parts' = <<>>
    /\ UNCHANGED pureVars
    /\ results_is_empty' = (n = 0)
    /\ playlist_effects' = <<>>
    /\ call' = NoCall
    /\ lastResp' = "none"
    /\ toolResult' = "none"
    /\ searchSucceeded' = FALSE
    /\ servicesInvoked' = 0
    /\ pagesFetched' = 0
    /\ UNCHANGED SEARCH_TOOL_USED
    /\ IF is_empty(n)
       THEN /\ pc' = "done"
            /\ conversation_history' = <<>>
            /\ iteration' = 0
            /\ request' = NoRequest
            /\ requestsSent' = 0
            /\ result' = Err("NoResults")
            /\ shown' = ReportFor["NoResults"]
            /\ in_flight' = {}
       ELSE /\ pc' = "llm"
            /\ conversation_history' = <<Content("user", "Text", "seed")>>
            /\ iteration' = 1
            /\ request' = GeminiRequest(conversation_history')
            /\ requestsSent' = 1
            /\ result' = NoResult
            /\ shown' = <<>>
            /\ in_flight' = {"llm"}

\* variant: a failed request is sent again while iterations are left
LlmFailsRetry(e) ==
    /\ pc = "llm"
    /\ lastText' = NoText
    /\ content_parts' = <<>>
    /\ UNCHANGED <<pureVars, results_is_empty>>
    /\ playlist_effects' = <<>>
    /\ lastResp' = "LlmFail"
    /\ IF requestsSent < max_iterations
       THEN /\ pc' = "llm"
            /\ requestsSent' = requestsSent + 1
            /\ UNCHANGED <<conversation_history, iteration, request, result,
                           shown, in_flight>>
       ELSE ReturnAfter(conversation_history, Err(e), GuidanceFor[e])
    /\ UNCHANGED <<call, toolResult, SEARCH_TOOL_USED, searchSucceeded,
                   servicesInvoked, pagesFetched>>

\* call_gemini_api returns Err: send failed or timed out, non-2xx status, or
\* the body is not a GeminiResponse
LlmFails(e) ==
    /\ pc = "llm"
    /\ lastText' = NoText
    /\ content_parts' = <<>>
    /\ UNCHANGED <<pureVars, results_is_empty>>
    /\ playlist_effects' = <<>>
    /\ lastResp' = "LlmFail"
    /\ ReturnAfter(conversation_history, Err(e), GuidanceFor[e])
    /\ UNCHANGED <<call, toolResult, SEARCH_TOOL_USED, searchSucceeded,
                   servicesInvoked, pagesFetched>>

\* response.candidates is empty
RespNoCandidate ==
    /\ pc = "llm"
    /\ lastText' = NoText
    /\ content_parts' = <<>>
    /\ UNCHANGED <<pureVars, results_is_empty>>
    /\ playlist_effects' = <<>>
    /\ lastResp' = "NoCandidate"
    /\ EndOfBody
    /\ UNCHANGED <<call, toolResult, SEARCH_TOOL_USED, searchSucceeded,
                   servicesInvoked, pagesFetched>>

\* variant: a response without parts ends the run
RespEmptyPartsEndsRun ==
    /\ pc = "llm"
    /\ lastText' = NoText
    /\ content_parts' = <<>>
    /\ UNCHANGED <<pureVars, results_is_empty>>
    /\ playlist_effects' = <<>>
    /\ lastResp' = "EmptyParts"
    /\ Return(conversation_history, Err("IterationLimit"))
    /\ UNCHANGED <<call, toolResult, SEARCH_TOOL_USED, searchSucceeded,
                   servicesInvoked, pagesFetched>>

\* the first candidate's content.parts is empty
RespEmptyParts ==
    /\ pc = "llm"
    /\ lastText' = NoText
    /\ content_parts' = <<>>
    /\ UNCHANGED <<pureVars, results_is_empty>>
    /\ playlist_effects' = <<>>
    /\ lastResp' = "EmptyParts"
    /\ EndOfBody
    /\ UNCHANGED <<call, toolResult, SEARCH_TOOL_USED, searchSucceeded,
                   servicesInvoked, pagesFetched>>

\* variant: the first iteration is treated like the following three
IsFirstIterationNever(it) == FALSE

\* if iteration == 1
IsFirstIteration(it) == it = 1

\* variant: the early iterations end one iteration sooner
IsEarlyIterationShort(it) == it <= 3

\* variant: the early iterations last one iteration longer
IsEarlyIterationLong(it) == it <= 5

\* iteration <= 4
IsEarlyIteration(it) == it <= 4

\* the response has the parts ps and the first part is
\* ResponsePart::Text { text }
RespText(ps) ==
    /\ pc = "llm"
    /\ first(ps).kind = "Text"
    /\ lastResp' = "Text"
    /\ lastText' = first(ps).text
    /\ UNCHANGED <<pureVars, results_is_empty>>
    /\ playlist_effects' = <<>>
    /\ IF IsFirstIteration(iteration)
       THEN Fits /\ Continue(PushTextAndNudge("nudge_search"))
       ELSE IF IsEarlyIteration(iteration)
               /\ ~contains(to_lowercase(first(ps).text), playlist)
            THEN Fits /\ Continue(PushTextAndNudge("nudge_workflow"))
            ELSE Return(conversation_history, Ok(first(ps).text))
    /\ UNCHANGED <<call, toolResult, SEARCH_TOOL_USED, searchSucceeded,
                   servicesInvoked, pagesFetched>>
    /\ content_parts' = Held(ps)

\* variant: the query argument of a search call is not checked
DispatchErrorNoQueryCheck(name, args, used) ==
    IF name = ReadTool /\ ~used THEN "OrderingViolation"
    ELSE IF name = SearchTool THEN "none"
    ELSE IF name = ReadTool
         THEN IF "url" \notin args THEN "MissingUrl" ELSE "none"
    ELSE IF name = PlaylistTool
         THEN IF "episodes" \notin args THEN "MissingEpisodes"
              ELSE IF "playlist_name" \notin args THEN "MissingPlaylistName"
              ELSE "none"
    ELSE "UnknownTool"

\* variant: the ordering check does not look at the flag
DispatchErrorFlagIgnored(name, args, used) ==
    IF name = ReadTool THEN "OrderingViolation"
    ELSE IF name = SearchTool
         THEN IF "query" \notin args THEN "MissingQuery" ELSE "none"
    ELSE IF name = PlaylistTool
         THEN IF "episodes" \notin args THEN "MissingEpisodes"
              ELSE IF "playlist_name" \notin args THEN "MissingPlaylistName"
              ELSE "none"
    ELSE "UnknownTool"

\* variant: the ordering check is made for create_vlc_playlist as well
DispatchErrorPlaylistOrdered(name, args, used) ==
    IF name \in {ReadTool, PlaylistTool} /\ ~used THEN "OrderingViolation"
    ELSE IF name = SearchTool
         THEN IF "query" \notin args THEN "MissingQuery" ELSE "none"
    ELSE IF name = ReadTool
         THEN IF "url" \notin args THEN "MissingUrl" ELSE "none"
    ELSE IF name = PlaylistTool
         THEN IF "episodes" \notin args THEN "MissingEpisodes"
              ELSE IF "playlist_name" \notin args THEN "MissingPlaylistName"
              ELSE "none"
    ELSE "UnknownTool"

\* execute_function_call, the checks made before any service is entered:
\* the error it returns, or "none". used: SEARCH_TOOL_USED is "1".
DispatchError(name, args, used) ==
    IF name = ReadTool /\ ~used THEN "OrderingViolation"
    ELSE IF name = SearchTool
         THEN IF "query" \notin args THEN "MissingQuery" ELSE "none"
    ELSE IF name = ReadTool
         THEN IF "url" \notin args THEN "MissingUrl" ELSE "none"
    ELSE IF name = PlaylistTool
         THEN IF "episodes" \notin args THEN "MissingEpisodes"
              ELSE IF "playlist_name" \notin args THEN "MissingPlaylistName"
              ELSE "none"
    ELSE "UnknownTool"

\* the first part is ResponsePart::FunctionCall and execute_function_call
\* returns Err before entering a service; `?` returns it from the run
RespCallInvalid(ps) ==
    /\ pc = "llm"
    /\ first(ps).kind = "FunctionCall"
    /\ lastText' = NoText
    /\ UNCHANGED <<pureVars, results_is_empty>>
    /\ playlist_effects' = <<>>
    /\ DispatchError(first(ps).name, first(ps).args, SEARCH_TOOL_USED) # "none"
    /\ lastResp' = "FunctionCall"
    /\ call' = [name |-> first(ps).name, args |-> first(ps).args]
    /\ Return(conversation_history,
              Err(DispatchError(first(ps).name, first(ps).args,
                                SEARCH_TOOL_USED)))
    /\ UNCHANGED <<toolResult, SEARCH_TOOL_USED, searchSucceeded,
                   servicesInvoked, pagesFetched>>
    /\ content_parts' = Held(ps)

\* function call to perform_google_search with a query: the flag is set,
\* perform_google_search is entered and sends its tier-1 request.
\* clientOk: Client::builder().build() of perform_google_search succeeds
RespCallSearch(ps, clientOk) ==
    /\ pc = "llm"
    /\ first(ps).kind = "FunctionCall"
    /\ first(ps).name = SearchTool
    /\ lastText' = NoText
    /\ UNCHANGED <<pureVars, results_is_empty>>
    /\ playlist_effects' = <<>>
    /\ DispatchError(SearchTool, first(ps).args, SEARCH_TOOL_USED) = "none"
    /\ Fits
    /\ lastResp' = "FunctionCall"
    /\ call' = [name |-> SearchTool, args |-> first(ps).args]
    /\ SEARCH_TOOL_USED' = TRUE
    /\ servicesInvoked' = servicesInvoked + 1
    /\ IF clientOk
       THEN /\ pc' = "tier1"
            /\ in_flight' = Completed \cup {"tier1"}
            /\ UNCHANGED <<conversation_history, iteration, request,
                           requestsSent, result, shown>>
       ELSE Return(conversation_history, Err("ClientBuild"))
    /\ UNCHANGED <<toolResult, searchSucceeded, pagesFetched>>
    /\ content_parts' = Held(ps)

\* perform_google_search returns Ok(text): execute_function_call wraps it in a
\* FunctionResponse, the loop pushes both turns and continues
SearchReturns(text) ==
    /\ toolResult' = text
    /\ searchSucceeded' = TRUE
    /\ Continue(PushCallAndResponse(SearchTool))
    /\ UNCHANGED <<call, lastResp, SEARCH_TOOL_USED, servicesInvoked,
                   pagesFetched>>

\* the tier-1 request returns: usable content is returned as the summary,
\* anything else falls through to the tier-2 request
Tier1Returns(o) ==
    /\ pc = "tier1"
    /\ UNCHANGED <<lastText, pureVars, results_is_empty>>
    /\ playlist_effects' = <<>>
    /\ IF o = "usable"
       THEN SearchReturns("tier1_summary")
       ELSE /\ pc' = "tier2"
            /\ in_flight' = Completed \cup {"tier2"}
            /\ UNCHANGED <<conversation_history, iteration, request,
                           requestsSent, call, lastResp, toolResult,
                           SEARCH_TOOL_USED, result, searchSucceeded,
                           servicesInvoked, pagesFetched, shown>>
    /\ content_parts' = Held(content_parts)

\* scrape_duckduckgo_results: the text for a readable results page
scrape_duckduckgo_results(o) ==
    IF o = "zero_blocks" THEN "no_search_results" ELSE "tier2_summary"

\* variant: a failed tier-2 request is returned as an error of the search
Tier2ReturnsError(o) ==
    /\ pc = "tier2"
    /\ UNCHANGED <<lastText, pureVars, results_is_empty>>
    /\ playlist_effects' = <<>>
    /\ IF o \in {"zero_blocks", "blocks"}
       THEN SearchReturns(scrape_duckduckgo_results(o))
       ELSE /\ Return(conversation_history, Err("FetchTransport"))
            /\ UNCHANGED <<call, lastResp, toolResult, SEARCH_TOOL_USED,
                           searchSucceeded, servicesInvoked, pagesFetched>>
    /\ content_parts' = Held(content_parts)

\* the tier-2 request returns: a readable page is scraped, anything else falls
\* through to the tier-3 suggestions
Tier2Returns(o) ==
    /\ pc = "tier2"
    /\ UNCHANGED <<lastText, pureVars, results_is_empty>>
    /\ playlist_effects' = <<>>
    /\ IF o \in {"zero_blocks", "blocks"}
       THEN SearchReturns(scrape_duckduckgo_results(o))
       ELSE SearchReturns("tier3_fallback")
    /\ content_parts' = Held(content_parts)

\* function call to read_website_content that passes the ordering check and
\* carries a url: read_website_content is entered and sends its page request.
\* urlOk: Url::parse succeeds; clientOk: Client::builder().build() succeeds
RespCallRead(ps, urlOk, clientOk) ==
    /\ pc = "llm"
    /\ first(ps).kind = "FunctionCall"
    /\ first(ps).name = ReadTool
    /\ lastText' = NoText
    /\ UNCHANGED <<pureVars, results_is_empty>>
    /\ playlist_effects' = <<>>
    /\ DispatchError(ReadTool, first(ps).args, SEARCH_TOOL_USED) = "none"
    /\ Fits
    /\ lastResp' = "FunctionCall"
    /\ call' = [name |-> ReadTool, args |-> first(ps).args]
    /\ servicesInvoked' = servicesInvoked + 1
    /\ IF ~urlOk
       THEN /\ Return(conversation_history, Err("InvalidUrl"))
            /\ UNCHANGED pagesFetched
       ELSE IF ~clientOk
       THEN /\ Return(conversation_history, Err("ClientBuild"))
            /\ UNCHANGED pagesFetched
       ELSE /\ pc' = "fetch"
            /\ pagesFetched' = pagesFetched + 1
            /\ in_flight' = Completed \cup {"fetch"}
            /\ UNCHANGED <<conversation_history, iteration, request,
                           requestsSent, result, shown>>
    /\ UNCHANGED <<toolResult, SEARCH_TOOL_USED, searchSucceeded>>
    /\ content_parts' = Held(ps)

\* read_website_content after its page request: the error it returns for an
\* outcome of the fetch and the extraction, or "none"
ReadError(o) ==
    CASE o = "transport_error" -> "FetchTransport"
      [] o = "http_status" -> "HttpStatus"
      [] o = "http_401" -> "HttpStatus401"
      [] o = "http_429" -> "HttpStatus429"
      [] o = "body_error" -> "BodyRead"
      [] o = "no_content" -> "ExtractionFailure"
      [] OTHER -> "none"

\* the page request returns: every Err of read_website_content is passed on by
\* `?` in execute_function_call and again in process_episodes
FetchReturns(o) ==
    /\ pc = "fetch"
    /\ UNCHANGED <<lastText, pureVars, results_is_empty>>
    /\ playlist_effects' = <<>>
    /\ IF ReadError(o) # "none"
       THEN /\ Return(conversation_history, Err(ReadError(o)))
            /\ UNCHANGED toolResult
       ELSE /\ toolResult' =
                  IF o = "long_content" THEN "page_truncated" ELSE "page_text"
            /\ Continue(PushCallAndResponse(ReadTool))
    /\ UNCHANGED <<call, lastResp, SEARCH_TOOL_USED, searchSucceeded,
                   servicesInvoked, pagesFetched>>
    /\ content_parts' = Held(content_parts)

\* an operation on the file system or a process spawn, and whether it worked
Effect(op, what, ok) == [op |-> op, what |-> what, ok |-> ok]

\* File::create(&filename) and file.write_all(..) of create_vlc_playlist
write_playlist(file) ==
    CASE file = "create_failed" -> <<Effect("create", "playlist", FALSE)>>
      [] file = "write_failed" ->
           <<Effect("create", "playlist", TRUE),
             Effect("write", "playlist", FALSE)>>
      [] OTHER ->
           <<Effect("create", "playlist", TRUE),
             Effect("write", "playlist", TRUE)>>

\* let vlc_commands = vec![..]
vlc_commands ==
    <<"vlc", "vlc.exe", "C:\\Program Files\\VideoLAN\\VLC\\vlc.exe",
      "C:\\Program Files (x86)\\VideoLAN\\VLC\\vlc.exe">>

\* the sets of commands that spawn on a machine: none, any single one, two
\* that are not neighbours, and all
SpawnableSets ==
    {{}} \cup {{vlc_commands[i]} : i \in 1..Len(vlc_commands)}
    \cup {{vlc_commands[2], vlc_commands[4]}}
    \cup {{vlc_commands[i] : i \in 1..Len(vlc_commands)}}

\* variant: every command is tried, whether an earlier one has spawned or not
RECURSIVE launch_vlc_all(_, _)
launch_vlc_all(i, spawnable) ==
    IF i > Len(vlc_commands) THEN <<>>
    ELSE <<Effect("spawn", vlc_commands[i], vlc_commands[i] \in spawnable)>>
         \o launch_vlc_all(i + 1, spawnable)

\* launch_vlc: the loop over the commands from the i-th on; it returns Ok(())
\* whether one has spawned or not
RECURSIVE launch_vlc(_, _)
launch_vlc(i, spawnable) ==
    IF i > Len(vlc_commands) THEN <<>>
    ELSE IF vlc_commands[i] \in spawnable
         THEN <<Effect("spawn", vlc_commands[i], TRUE)>>
         ELSE <<Effect("spawn", vlc_commands[i], FALSE)>>
              \o launch_vlc(i + 1, spawnable)

\* what create_vlc_playlist does to the file and, once the file is written,
\* launch_vlc to the commands; evaluated once
PlaylistEffects ==
    [file \in FileOutcomes, spawnable \in SpawnableSets |->
        write_playlist(file)
           \o (IF file = "written" THEN launch_vlc(1, spawnable) ELSE <<>>)]

\* function call to create_vlc_playlist with both arguments: the playlist is
\* written and launch_vlc, which always returns Ok, is called
RespCallPlaylist(ps, file, spawnable) ==
    /\ pc = "llm"
    /\ first(ps).kind = "FunctionCall"
    /\ first(ps).name = PlaylistTool
    /\ DispatchError(PlaylistTool, first(ps).args, SEARCH_TOOL_USED) = "none"
    /\ Fits
    /\ lastText' = NoText
    /\ UNCHANGED <<pureVars, results_is_empty>>
    /\ playlist_effects' = PlaylistEffects[file, spawnable]
    /\ lastResp' = "FunctionCall"
    /\ call' = [name |-> PlaylistTool, args |-> first(ps).args]
    /\ servicesInvoked' = servicesInvoked + 1
    /\ CASE file = "create_failed" ->
              /\ Return(conversation_history, Err("FileCreate"))
              /\ UNCHANGED toolResult
         [] file = "write_failed" ->
              /\ Return(conversation_history, Err("FileWrite"))
              /\ UNCHANGED toolResult
         [] OTHER ->
              /\ toolResult' = "playlist_confirmation"
              /\ Continue(PushCallAndResponse(PlaylistTool))
    /\ UNCHANGED <<SEARCH_TOOL_USED, searchSucceeded, pagesFetched>>
    /\ content_parts' = Held(ps)

\* what a call of create_vlc_playlist meets: the outcome of the file write
\* and, as launch_vlc is reached only when the file is written, the commands
\* that spawn then
PlaylistRuns ==
    {[file |-> file, spawnable |-> {}] : file \in FileOutcomes \ {"written"}}
    \cup
    {[file |-> "written", spawnable |-> spawnable] :
        spawnable \in SpawnableSets}

\* the responses with at least one part: the first part a text or a function
\* call, with or without further parts
Responses ==
    {<<TextPart(text)>> \o rest : text \in Texts, rest \in TrailingParts}
    \cup
    {<<CallPart(name, args)>> \o rest :
        name \in CallNames, args \in ArgSets, rest \in TrailingParts}

\* the responses by what content.parts.first() is
TextFirst == {ps \in Responses : first(ps).kind = "Text"}
CallFirst == {ps \in Responses : first(ps).kind = "FunctionCall"}
SearchFirst == {ps \in CallFirst : first(ps).name = SearchTool}
ReadFirst == {ps \in CallFirst : first(ps).name = ReadTool}
PlaylistFirst == {ps \in CallFirst : first(ps).name = PlaylistTool}

\* every step of a run that has started: a response or an outcome arrives
RunStep ==
    \/ \E e \in LlmFailures : LlmFails(e)
    \/ RespNoCandidate
    \/ RespEmptyParts
    \/ \E ps \in TextFirst : RespText(ps)
    \/ \E ps \in CallFirst : RespCallInvalid(ps)
    \/ \E ps \in SearchFirst, clientOk \in BOOLEAN :
          RespCallSearch(ps, clientOk)
    \/ \E o \in Tier1Outcomes : Tier1Returns(o)
    \/ \E o \in Tier2Outcomes : Tier2Returns(o)
    \/ \E ps \in ReadFirst, urlOk \in BOOLEAN,
          clientOk \in BOOLEAN :
          RespCallRead(ps, urlOk, clientOk)
    \/ \E o \in FetchOutcomes : FetchReturns(o)
    \/ \E ps \in PlaylistFirst, run \in PlaylistRuns :
          RespCallPlaylist(ps, run.file, run.spawnable)

Next ==
    \/ \E n \in 0..MaxEpisodes : process_episodes(n)
    \/ RunStep

Spec == Init /\ [][Next]_vars

\* every request the run is suspended on is answered (by a response, an
\* error or a timeout)
FairSpec == Spec /\ WF_vars(RunStep)

TypeOK ==
    /\ pc \in {"idle", "llm", "tier1", "tier2", "fetch", "done"}
    /\ iteration \in 0..max_iterations
    /\ requestsSent \in 0..max_iterations
    /\ Len(conversation_history) <= 1 + 2 * max_iterations
    /\ SEARCH_TOOL_USED \in BOOLEAN
    /\ result.status \in {"none", "ok", "err"}

(* ------------------- perform_google_search on its own ----------------- *)

\* A text is the sequence of its whitespace-separated words; the literals of
\* the format strings are words as well, "<nl>" stands for a line break.

\* Largest number of RelatedTopics of a tier-1 answer.
MaxTopics == 4

\* Largest number of result blocks of a tier-2 page.
MaxBlocks == 6

\* decimal numerals, as format!("{}", i) writes them
Numeral == <<"1", "2", "3", "4", "5", "6", "7", "8", "9">>

Min(a, b) == IF a < b THEN a ELSE b

None == [some |-> FALSE, v |-> <<>>]
Some(t) == [some |-> TRUE, v |-> t]

\* the queries perform_google_search is explored with
Queries ==
    { <<"Show", "X">>,
      <<"Tatort">>,
      <<"Käthe", "und", "ich", "Film", "Vier">>,
      <<"Der", "Alte", "Folge", "Eins">>,
      <<>> }

\* RelatedTopics[i] of a tier-1 answer: a topic with Text and FirstURL, with
\* one of them, or a group entry with neither
Topic(i, shape) ==
    LET both == shape = "both" \/ (shape = "mixed" /\ i % 2 = 1)
    IN  [Text |-> IF both \/ shape = "text"
                  THEN Some(<<"topic", Numeral[i]>>) ELSE None,
         FirstURL |-> IF both \/ shape = "url"
                      THEN Some(<<"http://topic/", Numeral[i]>>) ELSE None]

TopicShapes == {"both", "text", "url", "group", "mixed"}

\* the answers to the tier-1 request: no answer, a body that is not JSON, or
\* the JSON fields the code reads
DdgResponses ==
    {[kind |-> "transport_error"], [kind |-> "unparsable"]}
    \cup
    { [kind |-> "json", Abstract |-> a, AbstractURL |-> u, RelatedTopics |-> t] :
        a \in {None, Some(<<>>), Some(<<"A", "series">>)},
        u \in {None, Some(<<"http://abstract">>)},
        t \in {None} \cup
              { Some([i \in 1..n |-> Topic(i, shape)]) :
                  n \in 0..MaxTopics, shape \in TopicShapes } }

\* div.result block i of a tier-2 page: with title link and snippet, both
\* carrying markup, or with neither
Block(i, shape) ==
    IF shape = "full"
    THEN [title |-> Some(<<"<b>", "Hit", Numeral[i], "</b>">>),
          href |-> Some(<<"http://hit/", Numeral[i]>>),
          snippet |-> Some(<<"about", "<b>", "it", "</b>">>)]
    ELSE [title |-> None, href |-> None, snippet |-> None]

\* the answers to the tier-2 request: no answer, a body that cannot be read,
\* or a page with its result blocks
HtmlResponses ==
    {[kind |-> "transport_error"], [kind |-> "unreadable"]}
    \cup
    { [kind |-> "page", blocks |-> [i \in 1..n |-> Block(i, shape)]] :
        n \in 0..MaxBlocks, shape \in {"full", "bare"} }

\* str::to_lowercase of the words of the queries
LowerWord(w) ==
    CASE w = "Käthe" -> "käthe" [] w = "Show" -> "show" [] w = "X" -> "x"
      [] w = "Tatort" -> "tatort" [] w = "Film" -> "film" [] w = "Vier" -> "vier"
      [] w = "Der" -> "der" [] w = "Alte" -> "alte" [] w = "Folge" -> "folge"
      [] w = "Eins" -> "eins" [] OTHER -> w

\* form_urlencoded::byte_serialize of a word: bytes outside the unreserved
\* set are percent-encoded
EncodeWord(w) ==
    CASE w = "Käthe" -> "K%C3%A4the" [] OTHER -> w

\* urlencoding::encode: words encoded, the blanks between them become "+"
RECURSIVE encode(_)
encode(t) ==
    IF Len(t) = 0 THEN <<>>
    ELSE IF Len(t) = 1 THEN <<EncodeWord(t[1])>>
    ELSE <<EncodeWord(t[1]), "+">> \o encode(Tail(t))

\* [&str]::join: the texts of parts with sep between them
RECURSIVE join(_, _)
join(parts, sep) ==
    IF Len(parts) = 0 THEN <<>>
    ELSE IF Len(parts) = 1 THEN parts[1]
    ELSE parts[1] \o sep \o join(Tail(parts), sep)

\* let enhanced_query = ...
enhanced_query(q) ==
    LET lower == [i \in 1..Len(q) |-> LowerWord(q[i])]
    IN  IF contains(lower, <<"käthe", "und", "ich">>)
           \/ contains(lower, <<"kathe", "und", "ich">>)
        THEN q \o <<"episoden", "reihenfolge", "chronologisch", "wikipedia",
                    "fernsehserien.de">>
        ELSE q \o <<"episodes", "chronological", "order", "episode", "guide">>

\* variant: every related topic is summarised
TakeAllTopics(topics) == topics

\* related_topics.iter().take(3)
TakeTopics(topics) == SubSeq(topics, 1, Min(3, Len(topics)))

\* the entries pushed for related topic i
TopicEntries(topic, i) ==
    (IF topic.Text.some
     THEN << <<"Related", Numeral[i], ":">> \o topic.Text.v >> ELSE <<>>)
    \o
    (IF topic.FirstURL.some
     THEN << <<"URL:">> \o topic.FirstURL.v >> ELSE <<>>)

RECURSIVE TopicsEntries(_, _)
TopicsEntries(topics, i) ==
    IF i > Len(topics) THEN <<>>
    ELSE TopicEntries(topics[i], i) \o TopicsEntries(topics, i + 1)

\* tier 1: the `results` vector built from the JSON answer
Tier1Results(json) ==
    (IF json.Abstract.some /\ json.Abstract.v # <<>>
     THEN << <<"Abstract:">> \o json.Abstract.v >>
          \o (IF json.AbstractURL.some
              THEN << <<"Source:">> \o json.AbstractURL.v >> ELSE <<>>)
     ELSE <<>>)
    \o
    (IF json.RelatedTopics.some
     THEN TopicsEntries(TakeTopics(json.RelatedTopics.v), 1)
     ELSE <<>>)

\* the markup tags of the pages
Tags == {"<b>", "</b>"}

\* strip_html_tags: the regex <[^>]*> replaced by nothing
strip_html_tags(t) == SelectSeq(t, LAMBDA w : w \notin Tags)

\* variant: every result block is summarised
TakeAllBlocks(blocks) == blocks

\* document.select(&result_selector).take(5)
TakeBlocks(blocks) == SubSeq(blocks, 1, Min(5, Len(blocks)))

\* the entry pushed for result block i
BlockEntry(b, i) ==
    <<"Title:">>
    \o strip_html_tags(IF b.title.some THEN b.title.v
                       ELSE <<"Result", Numeral[i]>>)
    \o <<"<nl>", "URL:">> \o (IF b.href.some THEN b.href.v ELSE <<>>)
    \o <<"<nl>", "Snippet:">>
    \o strip_html_tags(IF b.snippet.some THEN b.snippet.v ELSE <<>>)

\* variant: a page without result blocks gives the empty text
EmptySummary == <<>>

\* Ok("No search results found.")
NoResultsFound == <<"No", "search", "results", "found.">>

\* scrape_duckduckgo_results(html), the text it returns
ScrapeSummary(blocks) ==
    LET taken == TakeBlocks(blocks)
        results == [i \in 1..Len(taken) |-> BlockEntry(taken[i], i)]
    IN  IF Len(results) = 0
        THEN NoResultsFound
        ELSE join(results, <<"<nl>", "<nl>", "---", "<nl>", "<nl>">>)

\* variant: the site slug is built from the whole query
series_name_all(q) ==
    join([i \in 1..Len(q) |-> <<q[i]>>], <<"_">>)

\* query.split_whitespace().take(3).collect::<Vec<&str>>().join("_")
series_name(q) ==
    join([i \in 1..Min(3, Len(q)) |-> <<q[i]>>], <<"_">>)

\* urlencoding::encode(&series_name): no blank is left in it
EncodeSlug(slug) == [i \in 1..Len(slug) |-> EncodeWord(slug[i])]

\* tier 3: the suggestions built from the query
Fallback(q) ==
    <<"Search", "failed", "for", "'">> \o q
    \o <<"'.", "Try", "these", "German", "TV", "resources:", "<nl>",
         "-", "Wikipedia", "DE:", "https://de.wikipedia.org/wiki/">>
    \o EncodeSlug(series_name(q))
    \o <<"<nl>", "-", "Fernsehserien.de:",
         "https://www.fernsehserien.de/suche/">>
    \o encode(q)
    \o <<"<nl>", "-", "IMDB:", "https://www.imdb.com/find?q=">>
    \o encode(q)
    \o <<"<nl>", "<nl>", "For", "'Käthe", "und", "ich'", "specifically,",
         "search", "for:", "<nl>",
         "-", "'Käthe", "und", "ich", "episoden", "reihenfolge'", "<nl>",
         "-", "'Käthe", "und", "ich", "chronologie'", "<nl>",
         "-", "Production", "years", "and", "air", "dates", "to",
         "determine", "correct", "order">>

\* perform_google_search(query) from its tier-1 request on: the text it
\* returns, with the requests it sent (tiers) and the tier-1 entries it built
perform_google_search(q, ddg, html) ==
    LET results == IF ddg.kind = "json" THEN Tier1Results(ddg) ELSE <<>>
    IN  IF Len(results) > 0
        THEN [status |-> "ok", from |-> 1, tiers |-> <<1>>,
              sent |-> enhanced_query(q), results |-> results,
              text |-> join(results, <<"<nl>", "<nl>">>)]
        ELSE IF html.kind = "page"
        THEN [status |-> "ok", from |-> 2, tiers |-> <<1, 2>>,
              sent |-> enhanced_query(q), results |-> results,
              text |-> ScrapeSummary(html.blocks)]
        ELSE [status |-> "ok", from |-> 3, tiers |-> <<1, 2, 3>>,
              sent |-> enhanced_query(q), results |-> results,
              text |-> Fallback(q)]

\* a call of perform_google_search with its argument and the answers its
\* requests will get
SearchInit ==
    /\ InitRun
    /\ query \in Queries
    /\ ddg_response \in DdgResponses
    /\ html_response \in HtmlResponses
    /\ search_out = Unused
    /\ page = Unused
    /\ read_out = Unused
    /\ NoExtract
    /\ NoFormat
    /\ NoFilter

\* the call returns
SearchCall ==
    /\ search_out = Unused
    /\ search_out' = perform_google_search(query, ddg_response, html_response)
    /\ UNCHANGED <<query, ddg_response, html_response, page, read_out,
                   extractVars, formatVars, filterVars>>
    /\ UNCHANGED runVars

SearchNext == SearchCall

SearchSpec == SearchInit /\ [][SearchNext]_vars

(* ------------------- read_website_content on its own ------------------ *)

\* An extracted text is a sequence of runs, a run being n characters of w
\* bytes each: str::len and the slice count bytes, a reader counts characters.

\* Largest number of runs of an extracted text.
MaxRuns == 2

\* const MAX_LENGTH: usize = 8000;
MAX_LENGTH == 8000

\* the lengths of the runs: short ones and ones around MAX_LENGTH and its half
RunSizes ==
    {20, MAX_LENGTH \div 2, MAX_LENGTH \div 2 + 1, MAX_LENGTH - 1, MAX_LENGTH,
     MAX_LENGTH + 1, MAX_LENGTH + 1000}

\* bytes of a character in UTF-8: ASCII, and a letter such as "ä"
CharWidths == {1, 2}

\* the texts extract_main_content returns
Contents ==
    UNION { [1..k -> [w : CharWidths, n : RunSizes]] : k \in 1..MaxRuns }

\* the status codes of the responses
Statuses == {200, 204, 301, 404, 500}

\* a call of read_website_content: whether its url parses, whether the client
\* can be built, the answer to the request, and what extract_main_content
\* finds in the document (None: nothing)
Pages ==
    [url_parses : BOOLEAN,
     client : BOOLEAN,
     send : {"ok", "transport_error"},
     status : Statuses,
     body : {"ok", "unreadable"},
     content : {None} \cup {Some(c) : c \in Contents}]

\* variant: every status counts as success
AnyStatusSucceeds(status) == TRUE

\* StatusCode::is_success
is_success(status) == status \in 200..299

\* chars().count() of a text
RECURSIVE Chars(_)
Chars(c) == IF Len(c) = 0 THEN 0 ELSE c[1].n + Chars(Tail(c))

\* str::len of a text: its bytes
RECURSIVE len(_)
len(c) == IF Len(c) = 0 THEN 0 ELSE c[1].w * c[1].n + len(Tail(c))

\* str::is_char_boundary(k) for k <= len
RECURSIVE is_char_boundary(_, _)
is_char_boundary(c, k) ==
    IF k = 0 THEN TRUE
    ELSE IF Len(c) = 0 THEN FALSE
    ELSE IF k >= c[1].w * c[1].n
         THEN is_char_boundary(Tail(c), k - c[1].w * c[1].n)
         ELSE k % c[1].w = 0

\* &c[..k] for a k that is a character boundary
RECURSIVE Slice(_, _)
Slice(c, k) ==
    IF k = 0 \/ Len(c) = 0 THEN <<>>
    ELSE IF k >= c[1].w * c[1].n
         THEN <<c[1]>> \o Slice(Tail(c), k - c[1].w * c[1].n)
         ELSE <<[w |-> c[1].w, n |-> k \div c[1].w]>>

ReadErr(e, steps) ==
    [status |-> "err", error |-> e, steps |-> steps, text |-> <<>>,
     marker |-> FALSE]

\* the size limit at the end of read_website_content
Limit(content, steps) ==
    IF len(content) > MAX_LENGTH
    THEN IF is_char_boundary(content, MAX_LENGTH)
         THEN [status |-> "ok", error |-> "none", steps |-> steps,
               text |-> Slice(content, MAX_LENGTH), marker |-> TRUE]
         ELSE [status |-> "panic", error |-> "none", steps |-> steps,
               text |-> <<>>, marker |-> FALSE]
    ELSE [status |-> "ok", error |-> "none", steps |-> steps,
          text |-> content, marker |-> FALSE]

\* read_website_content(url): what it returns and the steps it took
read_website_content(p) ==
    IF ~p.url_parses
    THEN ReadErr("InvalidUrl", <<"parse_url">>)
    ELSE IF ~p.client
    THEN ReadErr("ClientBuild", <<"parse_url", "build_client">>)
    ELSE IF p.send # "ok"
    THEN ReadErr("FetchTransport", <<"parse_url", "build_client", "send">>)
    ELSE IF ~is_success(p.status)
    THEN ReadErr("HttpStatus",
                 <<"parse_url", "build_client", "send", "status">>)
    ELSE IF p.body # "ok"
    THEN ReadErr("BodyRead",
                 <<"parse_url", "build_client", "send", "status",
                   "read_body">>)
    ELSE IF ~p.content.some
    THEN ReadErr("NoContent",
                 <<"parse_url", "build_client", "send", "status",
                   "read_body", "parse_document", "extract">>)
    ELSE Limit(p.content.v,
               <<"parse_url", "build_client", "send", "status",
                 "read_body", "parse_document", "extract">>)

\* a call of read_website_content with what its steps will meet
ReadInit ==
    /\ InitRun
    /\ page \in Pages
    /\ read_out = Unused
    /\ query = Unused
    /\ ddg_response = Unused
    /\ html_response = Unused
    /\ search_out = Unused
    /\ NoExtract
    /\ NoFormat
    /\ NoFilter

\* the call returns
ReadCall ==
    /\ read_out = Unused
    /\ page # Unused
    /\ read_out' = read_website_content(page)
    /\ UNCHANGED <<query, ddg_response, html_response, search_out, page,
                   extractVars, formatVars, filterVars>>
    /\ UNCHANGED runVars

ReadNext == ReadCall

ReadSpec == ReadInit /\ [][ReadNext]_vars

(* ------------------- extract_main_content on its own ------------------ *)

\* The walk over the selectors is followed selector by selector. A document
\* is what each selector finds in it: the number of elements that pass the
\* filter. The blocks taken from a selector are the run of its first n such
\* elements.

\* a host is known by the patterns its name contains: none, one of them, or
\* several (as "imdb.com.wikipedia.org" does)
Hosts ==
    {{}, {"wikipedia.org"}, {"fernsehserien.de"}, {"imdb.com"},
     {"tvbutler.de"}, {"filmstarts.de"}, {"wikipedia.org", "imdb.com"},
     {"tvbutler.de", "filmstarts.de"}}

\* let selectors = match host { .. }
Cascade(h) ==
    CASE "wikipedia.org" \in h ->
           <<"div.mw-parser-output p", "div.mw-parser-output li",
             "table.infobox tr", ".episode-list td", "table.wikitable tr",
             ".filmography tr", "div.mw-parser-output table tr">>
      [] "fernsehserien.de" \in h ->
           <<"div.serie-info p", "div.episoden-liste tr", "div.content p",
             ".episode-guide tr", ".staffel-info tr", ".film-info p">>
      [] "imdb.com" \in h ->
           <<"[data-testid='plot-xl']", ".ipc-html-content-inner-div",
             "li[data-testid='title-episode-item']", ".episode-item-wrapper",
             ".titleColumn">>
      [] "tvbutler.de" \in h ->
           <<".episode-info", ".episode-description", ".show-info p">>
      [] "filmstarts.de" \in h ->
           <<".episode-list tr", ".film-synopsis p", ".cast-info p">>
      [] OTHER ->
           <<"article p", "main p", ".content p", ".post p",
             ".entry-content p", "div.text p", ".article-body p", "table tr",
             ".episode-guide tr">>

\* .take(60) of the elements of a selector
SelectorTake == 60

\* .take(40) of the paragraphs
ParagraphTake == 40

\* extracted_text.len() > 30
Threshold == 30

\* the numbers of elements of a selector that pass the filter
ElementCounts ==
    {0, 1, Threshold - 1, Threshold, Threshold + 1, SelectorTake,
     SelectorTake + 1}

\* the numbers of paragraphs that pass the filter of the general extraction
ParagraphCounts == {0, 1, ParagraphTake, ParagraphTake + 1}

\* the blocks of selector sel: its first n kept elements
Blocks(sel, n) == IF n = 0 THEN <<>> ELSE <<[selector |-> sel, n |-> n]>>

\* Vec::len of a vector of blocks
RECURSIVE BlockCount(_)
BlockCount(v) == IF Len(v) = 0 THEN 0 ELSE v[1].n + BlockCount(Tail(v))

\* variant: the walk never has enough content
ThresholdNever(v) == FALSE

\* if extracted_text.len() > 30 { break; }
ThresholdReached(v) == BlockCount(v) > Threshold

\* the for loop over the selectors has ended
WalkEnded ==
    \/ Len(tried) = Len(Cascade(host))
    \/ ThresholdReached(extracted_text)

\* variant: the general extraction is made whatever the selectors gave
FallbackAlways == TRUE

\* if extracted_text.is_empty(), after the loop
FallbackNeeded == Len(extracted_text) = 0

NotAttempted == [attempted |-> FALSE, kept |-> 0]

\* a call of extract_main_content for a document of a host
ExtractInit ==
    /\ InitRun
    /\ query = Unused
    /\ ddg_response = Unused
    /\ html_response = Unused
    /\ search_out = Unused
    /\ page = Unused
    /\ read_out = Unused
    /\ NoFormat
    /\ NoFilter
    /\ host \in Hosts
    /\ tried = <<>>
    /\ extracted_text = <<>>
    /\ generic = NotAttempted
    /\ extract_out = Pending

\* one pass of the loop body: the next selector is evaluated, it keeps c
\* elements, of which at most 60 are taken
TrySelector(c) ==
    /\ extract_out = Pending
    /\ ~generic.attempted
    /\ ~WalkEnded
    /\ tried' = Append(tried, c)
    /\ extracted_text' =
          extracted_text
             \o Blocks(Cascade(host)[Len(tried) + 1], Min(c, SelectorTake))
    /\ UNCHANGED <<host, generic, extract_out>>
    /\ UNCHANGED <<runVars, query, ddg_response, html_response, search_out,
                   page, read_out, formatVars, filterVars>>

\* the general paragraph extraction: c paragraphs pass its filter, of which at
\* most 40 are taken
GeneralExtraction(c) ==
    /\ extract_out = Pending
    /\ WalkEnded
    /\ ~generic.attempted
    /\ FallbackNeeded
    /\ generic' = [attempted |-> TRUE, kept |-> c]
    /\ extracted_text' = Blocks("p", Min(c, ParagraphTake))
    /\ UNCHANGED <<host, tried, extract_out>>
    /\ UNCHANGED <<runVars, query, ddg_response, html_response, search_out,
                   page, read_out, formatVars, filterVars>>

\* the end of extract_main_content: the error, or the blocks joined
ExtractReturns ==
    /\ extract_out = Pending
    /\ WalkEnded
    /\ generic.attempted \/ ~FallbackNeeded
    /\ extract_out' =
          IF Len(extracted_text) = 0
          THEN [status |-> "err", error |-> "ExtractionFailure", blocks |-> <<>>]
          ELSE [status |-> "ok", error |-> "none", blocks |-> extracted_text]
    /\ UNCHANGED <<host, tried, extracted_text, generic>>
    /\ UNCHANGED <<runVars, query, ddg_response, html_response, search_out,
                   page, read_out, formatVars, filterVars>>

ExtractNext ==
    \/ \E c \in ElementCounts : TrySelector(c)
    \/ \E c \in ParagraphCounts : GeneralExtraction(c)
    \/ ExtractReturns

ExtractSpec == ExtractInit /\ [][ExtractNext]_vars

(* ------------------ format_episodes_for_ai on its own ----------------- *)

\* Largest number of episodes handed to format_episodes_for_ai.
MaxResults == 22

\* the cap on the episodes that are serialized
EpisodeLimit == 20

\* mediathekviewweb::models::Item number i of the catalogue
Item(i) ==
    [title |-> <<"title", i>>, topic |-> "topic", duration |-> 60 * i,
     channel |-> "ARD", url_video |-> <<"http://video/", i>>,
     description |-> <<"description", i>>]

\* the orders the episodes are supplied in
Orders == {"ascending", "descending", "rotated", "swapped"}

ResultLists ==
    { [k \in 1..n |->
         Item(CASE order = "ascending" -> k
                [] order = "descending" -> n + 1 - k
                [] order = "rotated" -> (k % n) + 1
                [] OTHER -> IF k % 2 = 1 /\ k < n THEN k + 1
                            ELSE IF k % 2 = 0 THEN k - 1 ELSE k)] :
        n \in 1..MaxResults, order \in Orders }

\* variant: every episode is serialized
all_results(r) == r

\* let limited_results = if results.len() > 20 { &results[..20] } else { results }
limited_results(r) ==
    IF Len(r) > EpisodeLimit THEN SubSeq(r, 1, EpisodeLimit) ELSE r

\* the json!({..}) object of an item
EpisodeJson(item) ==
    [title |-> item.title, topic |-> item.topic, duration |-> item.duration,
     channel |-> item.channel, url |-> item.url_video]

\* format_episodes_for_ai(results): the array that is serialized
format_episodes_for_ai(r) ==
    [k \in 1..Len(limited_results(r)) |-> EpisodeJson(limited_results(r)[k])]

\* a call of format_episodes_for_ai; process_episodes has returned before for
\* an empty list
FormatInit ==
    /\ InitRun
    /\ query = Unused
    /\ ddg_response = Unused
    /\ html_response = Unused
    /\ search_out = Unused
    /\ page = Unused
    /\ read_out = Unused
    /\ NoExtract
    /\ NoFilter
    /\ search_results \in ResultLists
    /\ episodes_json = Pending

\* the call returns
FormatCall ==
    /\ episodes_json = Pending
    /\ episodes_json' =
          [status |-> "ok", array |-> format_episodes_for_ai(search_results)]
    /\ UNCHANGED search_results
    /\ UNCHANGED <<runVars, query, ddg_response, html_response, search_out,
                   page, read_out, extractVars, filterVars>>

FormatNext == FormatCall

FormatSpec == FormatInit /\ [][FormatNext]_vars

(* ---------------- the block filter of the selectors on its own -------- *)

\* A block is the cleaned text of an element, a sequence of characters. The
\* character "U+00E4" stands for a letter of two bytes in UTF-8; every other
\* character of the texts is ASCII.

\* text.len() > 15
MinLength == 15

\* text.len() > 30
LongLength == 30

\* the patterns looked for in the lower-cased text
Keywords ==
    {<<"e", "p", "i", "s", "o", "d", "e">>,
     <<"f", "o", "l", "g", "e">>,
     <<"s", "t", "a", "f", "f", "e", "l">>,
     <<"s", "e", "a", "s", "o", "n">>,
     <<"e", "r", "s", "t", "a", "u", "s", "s", "t", "r", "a", "h", "l", "u", "n", "g">>,
     <<"a", "u", "s", "g", "e", "s", "t", "r", "a", "h", "l", "t">>}

\* the patterns looked for in the text as it is
Years ==
    {<<"2", "0", "1", "9">>, <<"2", "0", "2", "0">>, <<"2", "0", "2", "1">>, <<"2", "0", "2", "2">>, <<"2", "0", "2", "3">>, <<"2", "0", "2", "4">>}

\* bytes of a character in UTF-8
utf8_len(c) == IF c = "U+00E4" THEN 2 ELSE 1

\* str::len of a text: its bytes
RECURSIVE str_len(_)
str_len(t) == IF Len(t) = 0 THEN 0 ELSE utf8_len(t[1]) + str_len(Tail(t))

\* what the texts are built around: nothing, a keyword in some case of
\* letters, a word that is nearly one, years inside and outside 2019..2024,
\* and part of a year
Cores ==
    {<<>>,
     <<"E", "p", "i", "s", "o", "d", "e">>,
     <<"F", "o", "l", "g", "e">>,
     <<"S", "T", "A", "F", "F", "E", "L">>,
     <<"s", "e", "a", "s", "o", "n">>,
     <<"E", "r", "s", "t", "a", "u", "s", "s", "t", "r", "a", "h", "l", "u", "n", "g">>,
     <<"a", "u", "s", "g", "e", "s", "t", "r", "a", "h", "l", "t">>,
     <<"e", "p", "i", "s", "o", "d">>,
     <<"2", "0", "1", "9">>,
     <<"2", "0", "2", "4">>,
     <<"1", "9", "9", "8">>,
     <<"2", "0", "2", "5">>,
     <<"2", "0", "2">>}

\* a text of n characters: a word of the filler, a space, and the core
Filled(n, c, core) ==
    IF n = Len(core) THEN core
    ELSE [i \in 1..(n - Len(core) - 1) |-> c] \o <<" ">> \o core

\* the texts the filter is called with: every core, filled up with an ASCII
\* letter or with a two-byte letter, at numbers of characters around the two
\* lengths
BlockTexts ==
    LET Fillers == {"x", "U+00E4"}
        TextSizes == {10, MinLength, MinLength + 1, MinLength + 2,
                      LongLength, LongLength + 1}
    IN  UNION {{Filled(n, c, core) :
                   n \in {k \in TextSizes :
                             k >= Len(core) /\ k # Len(core) + 1},
                   c \in Fillers} :
               core \in Cores}

\* the closure of .filter(|text| ..) in the loop over the selectors
keep_block(text) ==
    /\ str_len(text) > MinLength
    /\ \/ \E kw \in Keywords : contains(to_lowercase(text), kw)
       \/ \E y \in Years : contains(text, y)
       \/ str_len(text) > LongLength

\* the filter is applied to the text of an element
FilterInit ==
    /\ InitRun
    /\ query = Unused
    /\ ddg_response = Unused
    /\ html_response = Unused
    /\ search_out = Unused
    /\ page = Unused
    /\ read_out = Unused
    /\ NoExtract
    /\ NoFormat
    /\ block_text \in BlockTexts
    /\ block_kept = Pending

\* the closure returns
FilterCall ==
    /\ block_kept = Pending
    /\ block_kept' = [status |-> "ok", kept |-> keep_block(block_text)]
    /\ UNCHANGED block_text
    /\ UNCHANGED <<runVars, query, ddg_response, html_response, search_out,
                   page, read_out, extractVars, formatVars>>

FilterNext == FilterCall

FilterSpec == FilterInit /\ [][FilterNext]_vars

(* ------------------------------ properties ----------------------------- *)

\* the run is suspended on a network request
Running == pc \in {"llm", "tier1", "tier2", "fetch"}

\* errors of execute_function_call raised before a service is entered
DispatchErrors ==
    {"OrderingViolation", "MissingQuery", "MissingUrl", "MissingEpisodes",
     "MissingPlaylistName", "UnknownTool"}

\* errors raised inside a service function
ServiceErrors ==
    {"ClientBuild", "InvalidUrl", "FetchTransport", "HttpStatus",
     "HttpStatus401", "HttpStatus429", "BodyRead", "ExtractionFailure",
     "FileCreate", "FileWrite"}

\* errors that end a run before its loop is exhausted
AbortingErrors ==
    {"NoResults"} \cup LlmFailures \cup DispatchErrors \cup ServiceErrors

\* the step handles an LLM response whose first part is a function call
DispatchStep == pc = "llm" /\ lastResp' = "FunctionCall"

\* C1: the roles of the conversation history alternate user, model, user, ...
\* starting with the seeded user turn, in every state of a run.
C1_RolesAlternate ==
    /\ Running \/ pc = "done" =>
          (result # Err("NoResults") =>
              /\ Len(conversation_history) >= 1
              /\ conversation_history[1] = Content("user", "Text", "seed"))
    /\ \A i \in 1..Len(conversation_history) :
          conversation_history[i].role =
              IF i % 2 = 1 THEN "user" ELSE "model"

\* C1 witness: a run that failed after a function call and a rejected text
\* were recorded and an empty response was handled.
C1_Witness ==
    /\ pc = "done"
    /\ result.status = "err"
    /\ Len(conversation_history) >= 5
    /\ requestsSent > (Len(conversation_history) + 1) \div 2
    /\ \E i \in 1..Len(conversation_history) :
          conversation_history[i].kind = "FunctionCall"
    /\ \E i \in 1..Len(conversation_history) :
          conversation_history[i] = Content("model", "Text", "model_text")

\* C2: every model FunctionCall turn is immediately followed by exactly one
\* user FunctionResponse turn of the same name, and every FunctionResponse
\* turn immediately follows such a call; also when the run ended on a tool
\* failure.
C2_CallHasResponse ==
    \A i \in 1..Len(conversation_history) :
        /\ conversation_history[i].kind = "FunctionCall" =>
              /\ conversation_history[i].role = "model"
              /\ i < Len(conversation_history)
              /\ conversation_history[i + 1] =
                    Content("user", "FunctionResponse",
                            conversation_history[i].name)
        /\ conversation_history[i].kind = "FunctionResponse" =>
              /\ i > 1
              /\ conversation_history[i - 1] =
                    Content("model", "FunctionCall",
                            conversation_history[i].name)

\* C2 witness: a run ended by a failing tool after an earlier tool call was
\* recorded.
C2_Witness ==
    /\ pc = "done"
    /\ result.status = "err"
    /\ result.value \in ServiceErrors
    /\ \E i \in 1..Len(conversation_history) :
          conversation_history[i].kind = "FunctionCall"

C4_LimitErrorClaim ==
    (/\ pc = "done"
     /\ iteration = max_iterations
     /\ result.status = "err"
     /\ result.value \notin AbortingErrors)
        => result = Err("IterationLimit")

\* C5 (as claimed): a read_website_content call dispatched when no search has
\* succeeded in this run fails with the ordering error, fetches no page and
\* ends the run.
C5_OrderingClaim ==
    [][(DispatchStep /\ call'.name = ReadTool /\ ~searchSucceeded)
          => /\ pc' = "done"
             /\ result' = Err("OrderingViolation")
             /\ pagesFetched' = pagesFetched
             /\ requestsSent' = requestsSent]_vars

\* C6 (as claimed): when a run sends its first request, the flag the ordering
\* check reads is unset, whatever happened before the run.
C6_FlagPerRunClaim ==
    (pc = "llm" /\ iteration = 1) => ~SEARCH_TOOL_USED

\* C7 (as claimed): a request of the search service, or of the read-content
\* service in a run whose search succeeded, that returns, whatever its
\* outcome, either moves on to the next tier or ends the invocation with the
\* function call and function response turns appended.
C7_ServiceFailureClaim ==
    [][(pc \in {"tier1", "tier2"} \/ (pc = "fetch" /\ searchSucceeded))
          => \/ pc' = "tier2"
             \/ conversation_history' = PushCallAndResponse(call.name)]_vars

\* the function call lacks an argument its tool requires
LacksRequired(c) ==
    \/ c.name = SearchTool /\ "query" \notin c.args
    \/ c.name = ReadTool /\ "url" \notin c.args
    \/ c.name = PlaylistTool /\ ~({"episodes", "playlist_name"} \subseteq c.args)

\* the missing-argument error for the first required argument c lacks
MissingArgument(c) ==
    CASE c.name = SearchTool -> "MissingQuery"
      [] c.name = ReadTool -> "MissingUrl"
      [] OTHER -> IF "episodes" \notin c.args THEN "MissingEpisodes"
                  ELSE "MissingPlaylistName"

\* the frame of a call that is refused at dispatch: the run ends, no service
\* is entered, no turn is appended, no request is sent
RefusedAtDispatch ==
    /\ pc' = "done"
    /\ conversation_history' = conversation_history
    /\ servicesInvoked' = servicesInvoked
    /\ pagesFetched' = pagesFetched
    /\ requestsSent' = requestsSent

\* C8 (as claimed): an unregistered tool name fails with UnknownTool and a
\* call lacking a required argument fails with MissingArgument, and the run
\* ends at once.
C8_ValidationClaim ==
    [][(DispatchStep /\ (call'.name \notin create_tools \/ LacksRequired(call')))
          => /\ RefusedAtDispatch
             /\ result' =
                   IF call'.name \notin create_tools
                   THEN Err("UnknownTool")
                   ELSE Err(MissingArgument(call'))]_vars

\* C8 (amended): as claimed, except that a read_website_content call lacking
\* its url while the search flag is unset fails with the ordering error.
C8_ValidationAmended ==
    [][(DispatchStep /\ (call'.name \notin create_tools \/ LacksRequired(call')))
          => /\ RefusedAtDispatch
             /\ result' =
                   IF call'.name \notin create_tools
                   THEN Err("UnknownTool")
                   ELSE IF call'.name = ReadTool /\ ~SEARCH_TOOL_USED
                   THEN Err("OrderingViolation")
                   ELSE Err(MissingArgument(call'))]_vars

\* C8 witness: runs ended by an unregistered tool name, by a search call
\* without query, or by a flagged read call without url.
C8_Witness ==
    /\ pc = "done"
    /\ lastResp = "FunctionCall"
    /\ \/ call.name \notin create_tools /\ result = Err("UnknownTool")
       \/ call.name = SearchTool /\ result = Err("MissingQuery")
       \/ call.name = ReadTool /\ result = Err("MissingUrl")

\* C9: a failure of the LLM request ends the run with that error; the request
\* is not sent again and no tool execution, history append or request follows.
C9_LlmFailureAborts ==
    [][/\ (pc = "llm" /\ lastResp' = "LlmFail")
            => /\ pc' = "done"
               /\ result'.status = "err"
               /\ result'.value \in LlmFailures
               /\ conversation_history' = conversation_history
               /\ requestsSent' = requestsSent
               /\ servicesInvoked' = servicesInvoked
       /\ (pc = "done" /\ lastResp = "LlmFail")
            => /\ requestsSent' <= 1
               /\ servicesInvoked' = 0
               /\ Len(conversation_history') <= 1]_vars

\* C9 witness: a run ended by an LLM failure after earlier iterations.
C9_Witness ==
    /\ pc = "done"
    /\ lastResp = "LlmFail"
    /\ result.value \in LlmFailures
    /\ requestsSent >= 2

\* C10 (as claimed): a response without a candidate ends the run with a
\* protocol error at that iteration.
C10_NoCandidateClaim ==
    [][(pc = "llm" /\ lastResp' = "NoCandidate")
          => /\ pc' = "done"
             /\ result' = Err("ProtocolError")]_vars

\* "playlist" occurs in t whatever the case of its letters
MentionsPlaylist(t) ==
    LET upper == <<"P", "L", "A", "Y", "L", "I", "S", "T">>
    IN  \E i \in 0..(Len(t) - 8) :
            \A k \in 1..8 : t[i + k] \in {playlist[k], upper[k]}

\* the step handles an LLM response whose first part is a text
TextStep == pc = "llm" /\ lastResp' = "Text"

\* the step appends the model's text turn and the corrective turn `nudge` and
\* sends the next request with them
RejectedWith(nudge) ==
    /\ pc' = "llm"
    /\ result' = NoResult
    /\ conversation_history' =
          conversation_history \o
              <<Content("model", "Text", "model_text"),
                Content("user", "Text", nudge)>>
    /\ requestsSent' = requestsSent + 1
    /\ request'.contents = conversation_history'

\* C11: a Text response at the first iteration does not end the run: the
\* model's text turn and the corrective turn demanding a search are appended
\* and a second request is sent.
C11_FirstTextRejected ==
    [][(TextStep /\ iteration = 1)
          => /\ RejectedWith("nudge_search")
             /\ requestsSent' = 2]_vars

\* C11 witness: the second request is out after a first-iteration text that
\* mentions the playlist.
C11_Witness ==
    /\ pc = "llm"
    /\ iteration = 2
    /\ lastResp = "Text"
    /\ MentionsPlaylist(lastText)
    /\ conversation_history[3] = Content("user", "Text", "nudge_search")

\* C12: at iterations 2 to 4 a Text response that does not mention the
\* playlist, in any case of letters, is rejected with the softer corrective
\* turn and the run continues with the next iteration.
C12_EarlyTextRejected ==
    [][(TextStep /\ iteration \in 2..4 /\ ~MentionsPlaylist(lastText'))
          => /\ RejectedWith("nudge_workflow")
             /\ iteration' = iteration + 1]_vars

\* C12 witness: the fifth request is out after a text rejected at iteration 4.
C12_Witness ==
    /\ pc = "llm"
    /\ iteration = 5
    /\ lastResp = "Text"
    /\ ~MentionsPlaylist(lastText)
    /\ conversation_history[Len(conversation_history)] =
          Content("user", "Text", "nudge_workflow")

\* C13: a Text response at iteration 2 to 4 that mentions the playlist, and
\* any Text response at iteration 5 to 8, is accepted: the run returns that
\* text, appends no turn, sends no request and executes no tool.
C13_TextAccepted ==
    [][(/\ TextStep
        /\ \/ iteration \in 2..4 /\ MentionsPlaylist(lastText')
           \/ iteration \in 5..max_iterations)
          => /\ pc' = "done"
             /\ result' = Ok(lastText')
             /\ conversation_history' = conversation_history
             /\ requestsSent' = requestsSent
             /\ servicesInvoked' = servicesInvoked
             /\ pagesFetched' = pagesFetched]_vars

\* C13 witness: a text that spells the playlist in mixed case was accepted at
\* an early iteration.
C13_Witness ==
    /\ pc = "done"
    /\ lastResp = "Text"
    /\ iteration \in 2..4
    /\ result.status = "ok"
    /\ result.value = lastText
    /\ MentionsPlaylist(lastText)
    /\ ~contains(lastText, playlist)

\* perform_google_search has returned
SearchDone == search_out.status # "unused"

\* number of occurrences of the word w in the text t
Count(t, w) == Len(SelectSeq(t, LAMBDA x : x = w))

\* the index a numeral stands for
IndexOf(numeral) == CHOOSE i \in 1..Len(Numeral) : Numeral[i] = numeral

Tier1Usable ==
    /\ ddg_response.kind = "json"
    /\ \/ ddg_response.Abstract.some /\ ddg_response.Abstract.v # <<>>
       \/ /\ ddg_response.RelatedTopics.some
          /\ \E i \in 1..Min(3, Len(ddg_response.RelatedTopics.v)) :
                \/ ddg_response.RelatedTopics.v[i].Text.some
                \/ ddg_response.RelatedTopics.v[i].FirstURL.some

\* tier 2 produced usable content: a page with at least one result block
Tier2Usable ==
    /\ html_response.kind = "page"
    /\ Len(html_response.blocks) > 0

\* C15 (as claimed): the tiers are attempted in the order 1, 2, 3, a later
\* tier exactly when every earlier one errored or produced no usable content,
\* and the text returned is that of the first tier with usable content, or
\* the tier-3 fallback if there is none.
C15_TierOrderClaim ==
    SearchDone =>
        /\ search_out.tiers =
              IF Tier1Usable THEN <<1>>
              ELSE IF Tier2Usable THEN <<1, 2>>
              ELSE <<1, 2, 3>>
        /\ search_out.from =
              IF Tier1Usable THEN 1 ELSE IF Tier2Usable THEN 2 ELSE 3

\* the first three words of the query joined by "_", url-encoded
Slug3(q) ==
    LET w(i) == EncodeWord(q[i])
    IN  CASE Len(q) = 1 -> <<w(1)>>
          [] Len(q) = 2 -> <<w(1), "_", w(2)>>
          [] OTHER -> <<w(1), "_", w(2), "_", w(3)>>

\* C16: when tier 1 answers with an empty Abstract and no RelatedTopics, tier 2
\* is requested; when that request fails at the transport level, the tier-3
\* fallback is returned: a non-empty text that quotes the original query, not
\* the enhanced one, and whose reference-site slug is made of the first three
\* words of the original query.
C16_FallbackText ==
    (/\ SearchDone
     /\ query # <<>>
     /\ ddg_response.kind = "json"
     /\ ddg_response.Abstract = Some(<<>>)
     /\ ddg_response.RelatedTopics = Some(<<>>)
     /\ html_response.kind = "transport_error")
        => /\ search_out.status = "ok"
           /\ search_out.tiers = <<1, 2, 3>>
           /\ Len(search_out.text) > 0
           /\ contains(search_out.text, <<"for", "'">> \o query \o <<"'.">>)
           /\ contains(search_out.text,
                       <<"https://de.wikipedia.org/wiki/">> \o Slug3(query)
                          \o <<"<nl>">>)

\* C16 witness: the fallback for a query of more than three words, one of
\* them with a character that is percent-encoded.
C16_Witness ==
    /\ SearchDone
    /\ Len(query) > 3
    /\ \E i \in 1..3 : EncodeWord(query[i]) # query[i]
    /\ ddg_response.kind = "json"
    /\ ddg_response.Abstract = Some(<<>>)
    /\ ddg_response.RelatedTopics = Some(<<>>)
    /\ html_response.kind = "transport_error"
    /\ search_out.from = 3

\* the numerals of the Title lines of a tier-2 summary, in their order
GroupNumerals(t) ==
    LET at == SelectSeq([i \in 1..Len(t) |-> i], LAMBDA i : t[i] = "Title:")
    IN  [k \in 1..Len(at) |-> t[at[k] + 2]]

\* C17: for a tier-2 page with n >= 1 result blocks the summary holds exactly
\* min(n, 5) Title/URL/Snippet groups, in page order, joined by exactly
\* min(n, 5) - 1 separators.
C17_ScrapeGroups ==
    (SearchDone /\ search_out.from = 2 /\ Len(html_response.blocks) >= 1)
        => LET n == Len(html_response.blocks)
               t == search_out.text
           IN  /\ Count(t, "Title:") = Min(n, 5)
               /\ Count(t, "URL:") = Min(n, 5)
               /\ Count(t, "Snippet:") = Min(n, 5)
               /\ Count(t, "---") = Min(n, 5) - 1
               /\ GroupNumerals(t) = SubSeq(Numeral, 1, Min(n, 5))
               /\ \A w \in Tags : Count(t, w) = 0

\* C17 witness: the summary of a page with more than five result blocks.
C17_Witness ==
    /\ SearchDone
    /\ search_out.from = 2
    /\ Len(html_response.blocks) > 5
    /\ html_response.blocks[1].title.some

\* C18: the tier-1 summary holds the abstract iff it is non-empty, the source
\* url only together with a non-empty abstract, and the text and url entries
\* of at most the first three related topics in their order; tier 1 is the
\* returned result iff there is at least one entry.
C18_Tier1Summary ==
    SearchDone =>
        LET r == search_out.results
            hasAbstract ==
                /\ ddg_response.kind = "json"
                /\ ddg_response.Abstract.some
                /\ ddg_response.Abstract.v # <<>>
            topics ==
                IF ddg_response.kind = "json" /\ ddg_response.RelatedTopics.some
                THEN ddg_response.RelatedTopics.v ELSE <<>>
            first3 == 1..Min(3, Len(topics))
            rel == SelectSeq(r, LAMBDA e : e[1] = "Related")
            url == SelectSeq(r, LAMBDA e : e[1] = "URL:")
        IN  /\ (\E k \in 1..Len(r) : r[k][1] = "Abstract:") <=> hasAbstract
            /\ hasAbstract => r[1] = <<"Abstract:">> \o ddg_response.Abstract.v
            /\ (\E k \in 1..Len(r) : r[k][1] = "Source:")
                  => /\ hasAbstract
                     /\ r[2] = <<"Source:">> \o ddg_response.AbstractURL.v
            /\ Len(rel) <= 3 /\ Len(url) <= 3
            /\ \A k \in 1..Len(rel) :
                  /\ IndexOf(rel[k][2]) \in first3
                  /\ topics[IndexOf(rel[k][2])].Text.some
                  /\ rel[k] = <<"Related", rel[k][2], ":">>
                                 \o topics[IndexOf(rel[k][2])].Text.v
                  /\ k > 1 => IndexOf(rel[k - 1][2]) < IndexOf(rel[k][2])
            /\ \A k \in 1..Len(url) :
                  /\ IndexOf(url[k][3]) \in first3
                  /\ topics[IndexOf(url[k][3])].FirstURL.some
                  /\ url[k] = <<"URL:">> \o topics[IndexOf(url[k][3])].FirstURL.v
                  /\ k > 1 => IndexOf(url[k - 1][3]) < IndexOf(url[k][3])
            /\ \A i \in first3 :
                  /\ topics[i].Text.some =>
                        \E k \in 1..Len(rel) : IndexOf(rel[k][2]) = i
                  /\ topics[i].FirstURL.some =>
                        \E k \in 1..Len(url) : IndexOf(url[k][3]) = i
            /\ search_out.from = 1 <=> Len(r) > 0
            /\ search_out.from = 1 =>
                  /\ Count(search_out.text, "Abstract:") =
                        (IF hasAbstract THEN 1 ELSE 0)
                  /\ Count(search_out.text, "Related") = Len(rel)
                  /\ Count(search_out.text, "URL:") = Len(url)

\* C18 witness: a tier-1 summary of an abstract with its source and of more
\* than three related topics.
C18_Witness ==
    /\ SearchDone
    /\ search_out.from = 1
    /\ ddg_response.Abstract.some /\ ddg_response.Abstract.v # <<>>
    /\ ddg_response.AbstractURL.some
    /\ ddg_response.RelatedTopics.some
    /\ Len(ddg_response.RelatedTopics.v) > 3
    /\ ddg_response.RelatedTopics.v[4].Text.some

\* read_website_content has returned
ReadDone == read_out.status # "unused"

\* the call got as far as the extracted text
ReadExtracted ==
    /\ ReadDone
    /\ page.url_parses /\ page.client /\ page.send = "ok"
    /\ page.status \in 200..299
    /\ page.body = "ok"
    /\ page.content.some

\* the first k characters of a text
RECURSIVE FirstChars(_, _)
FirstChars(c, k) ==
    IF k = 0 \/ Len(c) = 0 THEN <<>>
    ELSE IF k >= c[1].n
         THEN <<c[1]>> \o FirstChars(Tail(c), k - c[1].n)
         ELSE <<[w |-> c[1].w, n |-> k]>>

\* C19 (as claimed): the extracted text is returned unchanged when it has at
\* most 8000 characters, and otherwise its first 8000 characters are returned,
\* followed by the truncation marker.
C19_TruncationClaim ==
    ReadExtracted =>
        /\ read_out.status = "ok"
        /\ IF Chars(page.content.v) <= 8000
           THEN read_out.text = page.content.v /\ ~read_out.marker
           ELSE /\ read_out.text = FirstChars(page.content.v, 8000)
                /\ read_out.marker

\* C20: a url that does not parse fails with InvalidUrl before any request is
\* sent; a status other than 2xx fails with the upstream error, the body
\* neither read, parsed nor extracted.
C20_EarlyFailures ==
    ReadDone =>
        /\ ~page.url_parses =>
              /\ read_out.status = "err"
              /\ read_out.error = "InvalidUrl"
              /\ \A i \in 1..Len(read_out.steps) :
                    read_out.steps[i] \notin {"build_client", "send"}
        /\ (/\ page.url_parses /\ page.client /\ page.send = "ok"
            /\ page.status \notin 200..299) =>
              /\ read_out.status = "err"
              /\ read_out.error = "HttpStatus"
              /\ \A i \in 1..Len(read_out.steps) :
                    read_out.steps[i] \notin
                        {"read_body", "parse_document", "extract"}

\* C20 witness: a 404 answer whose body could have been read and extracted.
C20_Witness ==
    /\ ReadDone
    /\ page.url_parses /\ page.client /\ page.send = "ok"
    /\ page.status = 404
    /\ page.body = "ok"
    /\ page.content.some
    /\ read_out.error = "HttpStatus"

\* the class the classification table gives the message of error e
ClaimedClass(e) ==
    LET m == to_lowercase(Message(e))
    IN  IF \/ contains(m, <<"4", "0", "1">>)
           \/ contains(m, <<"u", "n", "a", "u", "t", "h", "o", "r", "i", "z",
                            "e", "d">>)
           \/ contains(m, <<"a", "p", "i", " ", "k", "e", "y">>)
        THEN "Auth"
        ELSE IF \/ contains(m, <<"4", "2", "9">>)
                \/ contains(m, <<"q", "u", "o", "t", "a">>)
                \/ contains(m, <<"r", "a", "t", "e", " ", "l", "i", "m", "i",
                                 "t">>)
        THEN "Quota"
        ELSE IF \/ contains(m, <<"4", "0", "3">>)
                \/ contains(m, <<"f", "o", "r", "b", "i", "d", "d", "e", "n">>)
        THEN "Permission"
        ELSE "Other"

ClaimedClassOf == [e \in ErrorKinds |-> ClaimedClass(e)]

\* the guidance classes
GuidanceClasses == {"Auth", "Quota", "Permission"}

\* C23: a failed LLM request is classified by the substrings of its
\* lower-cased message (401 / unauthorized / api key: Auth; else 429 / quota /
\* rate limit: Quota; else 403 / forbidden: Permission; else nothing), and the
\* run returns the very error that was classified.
C23_Classification ==
    [][(pc = "llm" /\ lastResp' = "LlmFail")
          => /\ result'.status = "err"
             /\ result'.value \in LlmFailures
             /\ SelectSeq(shown', LAMBDA n : n.by = "handle_api_error") =
                   IF ClaimedClassOf[result'.value] = "Other" THEN <<>>
                   ELSE <<[by |-> "handle_api_error",
                           class |-> ClaimedClassOf[result'.value]]>>]_vars

\* C23 witness: a run ended by a failed LLM request whose message matches the
\* patterns of two classes, classified by the first of them.
C23_Witness ==
    /\ pc = "done"
    /\ lastResp = "LlmFail"
    /\ result = Err("LlmStatus429Key")
    /\ shown[1] = [by |-> "handle_api_error", class |-> "Auth"]

\* C24 (as claimed): a run that ended with an error that is not a failure of
\* the LLM request has shown no auth, quota or permission guidance.
C24_GuidanceClaim ==
    (/\ pc = "done"
     /\ result.status = "err"
     /\ result.value \notin LlmFailures
     /\ pagesFetched > 0 => searchSucceeded)
        => \A i \in 1..Len(shown) : shown[i].class \notin GuidanceClasses

\* C29: at most one network request is in flight at any time, the one the run
\* is suspended on; a request is started only after the previous one returned.
C29_OneRequestInFlight ==
    /\ Cardinality(in_flight) <= 1
    /\ in_flight = IF Running THEN {pc} ELSE {}

\* C29 witness: the tier-2 request of a search in flight after an earlier
\* exchange.
C29_Witness ==
    /\ pc = "tier2"
    /\ in_flight = {"tier2"}
    /\ requestsSent >= 2

\* C30 (as claimed): the flag the ordering check reads becomes set only in a
\* step in which a search invocation returns without an error.
C30_FlagAfterSearchClaim ==
    [][(~SEARCH_TOOL_USED /\ SEARCH_TOOL_USED')
          => (~searchSucceeded /\ searchSucceeded')]_vars

\* a tool is being executed
InTool == pc \in {"tier1", "tier2", "fetch"}

\* C25: the first part of a response alone decides the iteration: at most one
\* tool is executed per iteration, the tool executed is the one the first part
\* calls, a response whose first part is a text executes no tool, a response
\* whose first part is a function call is never accepted as the final text,
\* and the only turns appended are those of the first part.
C25_FirstPartOnly ==
    /\ [](servicesInvoked <= iteration /\ iteration <= max_iterations)
    /\ [](InTool => /\ Len(content_parts) >= 1
                    /\ content_parts[1] = CallPart(call.name, call.args))
    /\ [][pc = "llm"
            => /\ servicesInvoked' <= servicesInvoked + 1
               /\ lastResp' = "Text"
                     => /\ servicesInvoked' = servicesInvoked
                        /\ pagesFetched' = pagesFetched
                        /\ pc' \in {"llm", "done"}
                        /\ conversation_history' \in
                              {conversation_history,
                               PushTextAndNudge("nudge_search"),
                               PushTextAndNudge("nudge_workflow")}
               /\ lastResp' = "FunctionCall"
                     => /\ result'.status # "ok"
                        /\ conversation_history' \in
                              {conversation_history,
                               PushCallAndResponse(call'.name)}
               /\ lastResp' \in {"EmptyParts", "NoCandidate", "LlmFail"}
                     => /\ servicesInvoked' = servicesInvoked
                        /\ conversation_history' = conversation_history]_vars
    /\ [][InTool
            => /\ servicesInvoked' = servicesInvoked
               /\ result'.status # "ok"
               /\ conversation_history' \in
                     {conversation_history,
                      PushCallAndResponse(call.name)}]_vars

\* C25 witness: the tool of the first part is executed at a later iteration
\* while the response carries a text and another function call after it.
C25_Witness ==
    /\ pc = "fetch"
    /\ iteration >= 3
    /\ Len(content_parts) = 3
    /\ content_parts[2].kind = "Text"
    /\ content_parts[3].kind = "FunctionCall"

\* s is a prefix of t
IsPrefix(s, t) == Len(s) <= Len(t) /\ SubSeq(t, 1, Len(s)) = s

\* C26: during a run the history only grows at its end: every step of the run
\* leaves the turns already in the history in place and unmodified, also a
\* step that ends the run with an error.
C26_AppendOnly ==
    [][Running => IsPrefix(conversation_history, conversation_history')]_vars

\* C26 witness: a run that ended with an error after two exchanges had been
\* appended to the seed turn.
C26_Witness ==
    /\ pc = "done"
    /\ result.status = "err"
    /\ result.value \in AbortingErrors
    /\ Len(conversation_history) >= 5
    /\ conversation_history[1] = Content("user", "Text", "seed")

\* C27: every request sent to the LLM carries the whole history as it is at
\* that moment and the same three function declarations: search requiring
\* query, read-content requiring url, build-playlist requiring episodes and
\* playlist_name.
C27_FullHistoryAndTools ==
    Running =>
        /\ request.contents = conversation_history
        /\ request.tools =
              {[name |-> "perform_google_search", required |-> {"query"}],
               [name |-> "read_website_content", required |-> {"url"}],
               [name |-> "create_vlc_playlist",
                required |-> {"episodes", "playlist_name"}]}

\* C27 witness: a request sent after two exchanges.
C27_Witness ==
    /\ pc = "llm"
    /\ requestsSent >= 3
    /\ Len(conversation_history) >= 5
    /\ Len(request.contents) >= 5

\* extract_main_content has returned
ExtractDone == extract_out.status \in {"ok", "err"}

\* the blocks the first k evaluated selectors contributed, at most 60 each
RECURSIVE KeptUpTo(_)
KeptUpTo(k) ==
    IF k = 0 THEN 0
    ELSE (IF tried[k] < 60 THEN tried[k] ELSE 60) + KeptUpTo(k - 1)

\* the blocks of the evaluated selectors from the i-th on, in listed order
RECURSIVE KeptRuns(_)
KeptRuns(i) ==
    IF i > Len(tried) THEN <<>>
    ELSE (IF tried[i] = 0 THEN <<>>
          ELSE <<[selector |-> Cascade(host)[i],
                  n |-> IF tried[i] < 60 THEN tried[i] ELSE 60]>>)
         \o KeptRuns(i + 1)

\* the paragraphs the general extraction contributed, at most 40
KeptParagraphs == IF generic.kept < 40 THEN generic.kept ELSE 40

\* C21: the general paragraph extraction is attempted if and only if the whole
\* cascade of the host yielded no block; extract_main_content fails, with the
\* extraction failure, if and only if the cascade and the general extraction
\* both yielded no block; otherwise it returns the kept blocks in cascade order
\* (those of the general extraction when the cascade gave none).
C21_FallbackAndFailure ==
    extract_out # Unused =>
       /\ generic.attempted =>
             /\ KeptUpTo(Len(tried)) = 0
             /\ Len(tried) = Len(Cascade(host))
       /\ ExtractDone =>
             /\ generic.attempted <=> KeptUpTo(Len(tried)) = 0
             /\ extract_out.status = "err" <=>
                   KeptUpTo(Len(tried)) = 0 /\ KeptParagraphs = 0
             /\ extract_out.status = "err" =>
                   extract_out.error = "ExtractionFailure"
             /\ extract_out.status = "ok" =>
                   extract_out.blocks =
                      IF KeptUpTo(Len(tried)) > 0 THEN KeptRuns(1)
                      ELSE <<[selector |-> "p", n |-> KeptParagraphs]>>

\* C21's case: the nine selectors of an unknown host and the general extraction
\* all gave nothing, and the call has failed
C21_Witness ==
    /\ extract_out.status = "err"
    /\ generic.attempted
    /\ host = {}
    /\ Len(tried) = 9

\* C22: the selectors are evaluated in their listed order; none is evaluated
\* after the one at which the accumulated number of blocks first exceeds 30,
\* and the walk goes on as long as it does not; a selector contributes at most
\* 60 blocks, and the result of the cascade never holds more than 90.
C22_CascadeWalk ==
    extract_out # Unused =>
       /\ Len(tried) <= Len(Cascade(host))
       /\ \A k \in 1..(Len(tried) - 1) : KeptUpTo(k) <= 30
       /\ ExtractDone /\ KeptUpTo(Len(tried)) <= 30 =>
             Len(tried) = Len(Cascade(host))
       /\ ~generic.attempted =>
             /\ extracted_text = KeptRuns(1)
             /\ \A i \in 1..Len(extracted_text) : extracted_text[i].n <= 60
             /\ BlockCount(extracted_text) <= 90

\* C22's case: the walk has stopped before the end of the cascade, with the
\* largest result there is
C22_Witness ==
    /\ extract_out.status = "ok"
    /\ BlockCount(extract_out.blocks) = 90
    /\ Len(tried) < Len(Cascade(host))

\* C28: the array serialized for the first turn holds exactly the first
\* min(n, 20) of the n supplied episodes, in the supplied order, and the
\* supplied list is never modified.
C28_FirstEpisodes ==
    /\ [](episodes_json.status = "ok" =>
            LET n == Len(search_results)
                m == IF n < 20 THEN n ELSE 20
            IN  /\ Len(episodes_json.array) = m
                /\ \A k \in 1..m :
                      episodes_json.array[k] =
                         [title |-> search_results[k].title,
                          topic |-> search_results[k].topic,
                          duration |-> search_results[k].duration,
                          channel |-> search_results[k].channel,
                          url |-> search_results[k].url_video])
    /\ [][search_results' = search_results]_vars

\* C28's case: more than 20 episodes were supplied, not in catalogue order, and
\* the array has been built
C28_Witness ==
    /\ episodes_json.status = "ok"
    /\ Len(search_results) > 20
    /\ search_results[1] # Item(1)
    /\ Len(episodes_json.array) = 20

\* C31 (as claimed): a run returns an accepted text only if a search
\* invocation has succeeded earlier in that run.
C31_AcceptanceClaim ==
    (pc = "done" /\ result.status = "ok") => searchSucceeded

\* the step ends the run with the text of the response as its result
Accepted ==
    /\ pc' = "done"
    /\ result' = Ok(lastText')
    /\ conversation_history' = conversation_history
    /\ requestsSent' = requestsSent

\* C32: the acceptance policy is keyed on the number of the LLM request, the
\* requests answered by function calls included: a Text response that does not
\* mention the playlist is rejected, with a corrective turn, if and only if
\* it answers request 1 to 4, and is accepted otherwise; a first text after
\* four function calls is accepted without a corrective turn.
C32_IterationCountsRequests ==
    [][(TextStep /\ ~MentionsPlaylist(lastText'))
          => IF requestsSent \in 1..4
             THEN RejectedWith(IF requestsSent = 1 THEN "nudge_search"
                               ELSE "nudge_workflow")
             ELSE Accepted]_vars

\* C32 witness: four function calls were answered, the fifth response was the
\* first text of the run, it does not mention the playlist, and it was accepted
C32_Witness ==
    /\ pc = "done"
    /\ result.status = "ok"
    /\ requestsSent = 5
    /\ lastResp = "Text"
    /\ ~MentionsPlaylist(lastText)
    /\ Len(conversation_history) = 9
    /\ \A i \in 1..4 : conversation_history[2 * i].kind = "FunctionCall"

\* C34: the flag the ordering check reads is never reset once it is set, so
\* after a search of the run has succeeded no read_website_content call of
\* that run is refused with the ordering error, whatever came in between: the
\* call enters its service, or fails for its missing url.
C34_FlagMonotonic ==
    /\ [][SEARCH_TOOL_USED => SEARCH_TOOL_USED']_vars
    /\ [](searchSucceeded => SEARCH_TOOL_USED)
    /\ [][(DispatchStep /\ call'.name = ReadTool /\ searchSucceeded)
            => /\ result' # Err("OrderingViolation")
               /\ IF "url" \in call'.args
                  THEN servicesInvoked' = servicesInvoked + 1
                  ELSE result' = Err("MissingUrl")]_vars

\* C34 witness: a page is being fetched in a run whose search succeeded, after
\* a rejected text and a playlist call came in between
C34_Witness ==
    /\ pc = "fetch"
    /\ searchSucceeded
    /\ Len(conversation_history) = 7
    /\ conversation_history[2] = Content("model", "FunctionCall", SearchTool)
    /\ conversation_history[4] = Content("model", "Text", "model_text")
    /\ conversation_history[6] = Content("model", "FunctionCall", PlaylistTool)

\* C35: a search whose tier-1 and tier-2 requests both failed returns the
\* tier-3 fallback text as a success: no answer to the tier-2 request ends
\* the run with an error of the search, the function call and its response
\* are appended, the next request is sent if an iteration is left, and a
\* read_website_content call that follows passes the ordering check.
C35_FallbackCounts ==
    /\ [][(pc = "tier2" /\ ~Running' => result' = Err("UnexpectedEnd"))
          /\ (pc = "tier2" /\ toolResult' = "tier3_fallback"
                => /\ conversation_history' = PushCallAndResponse(SearchTool)
                   /\ searchSucceeded'
                   /\ SEARCH_TOOL_USED'
                   /\ iteration < max_iterations
                        => /\ pc' = "llm"
                           /\ requestsSent' = requestsSent + 1
                           /\ request'.contents = conversation_history')]_vars
    /\ [][(DispatchStep /\ call'.name = ReadTool
             /\ toolResult = "tier3_fallback")
            => /\ result' # Err("OrderingViolation")
               /\ "url" \in call'.args
                    => servicesInvoked' = servicesInvoked + 1]_vars

\* C35 witness: a page is being fetched after a search that returned the
\* tier-3 fallback
C35_Witness ==
    /\ pc = "fetch"
    /\ toolResult = "tier3_fallback"
    /\ call.name = ReadTool
    /\ conversation_history[Len(conversation_history)] =
          Content("user", "FunctionResponse", SearchTool)

\* C36: the ordering check applies to read_website_content only: a call of
\* perform_google_search or create_vlc_playlist is never refused with the
\* ordering error and, when its arguments are present, is executed whatever
\* the flag.
C36_OrderingReadOnly ==
    [][(DispatchStep /\ call'.name \in {SearchTool, PlaylistTool})
          => /\ result' # Err("OrderingViolation")
             /\ required(call'.name) \subseteq call'.args
                  => servicesInvoked' = servicesInvoked + 1]_vars

\* C36 witness: the playlist was written in a run in which no search was
\* dispatched and the flag is unset
C36_Witness ==
    /\ toolResult = "playlist_confirmation"
    /\ ~SEARCH_TOOL_USED
    /\ ~searchSucceeded
    /\ conversation_history[2] = Content("model", "FunctionCall", PlaylistTool)

\* C37: a response whose first candidate has no parts, at an iteration before
\* the last, does not end the run and leaves the history as it is: the next
\* iteration sends the same contents again; at the last iteration the run
\* fails with the iteration limit error.
C37_EmptyParts ==
    [][(pc = "llm" /\ lastResp' = "EmptyParts")
          => /\ conversation_history' = conversation_history
             /\ servicesInvoked' = servicesInvoked
             /\ IF iteration < max_iterations
                THEN /\ pc' = "llm"
                     /\ result' = NoResult
                     /\ iteration' = iteration + 1
                     /\ requestsSent' = requestsSent + 1
                     /\ request' = request
                ELSE /\ pc' = "done"
                     /\ result' = Err("IterationLimit")
                     /\ requestsSent' = requestsSent]_vars

\* C37 witness: the run goes on after a response without parts: its fourth
\* request is out, with the history of one function call
C37_Witness ==
    /\ pc = "llm"
    /\ lastResp = "EmptyParts"
    /\ Len(conversation_history) = 3
    /\ requestsSent = 4
    /\ request.contents = conversation_history

\* C38 (as claimed): for every extracted text longer than the limit of 8000
\* bytes, read_website_content returns a truncated text with the marker.
C38_TruncationDefinedClaim ==
    (ReadExtracted /\ len(page.content.v) > MAX_LENGTH)
        => /\ read_out.status = "ok"
           /\ read_out.marker
           /\ len(read_out.text) <= MAX_LENGTH

\* C39: process_episodes called with an empty list of episodes fails at once:
\* the run is over with the error, no history was built, no request was sent
\* to the LLM and no tool was executed.
C39_EmptyListFails ==
    results_is_empty =>
       /\ pc = "done"
       /\ result = Err("NoResults")
       /\ conversation_history = <<>>
       /\ request = NoRequest
       /\ requestsSent = 0
       /\ servicesInvoked = 0
       /\ pagesFetched = 0
       /\ in_flight = {}

\* C39 witness: process_episodes was called with an empty list in a process
\* in which an earlier run has searched
C39_Witness ==
    /\ results_is_empty
    /\ pc = "done"
    /\ SEARCH_TOOL_USED
    /\ result = Err("NoResults")

\* the spawn attempts among the effects of a step
SpawnsOf(effects) == SelectSeq(effects, LAMBDA e : e.op = "spawn")

\* C40: create_vlc_playlist creates and writes the playlist file before it
\* tries to launch a player; the player commands are tried in their listed
\* order and trying stops at the first that spawns; if none spawns the tool
\* still returns its confirmation and the run goes on, while a failure to
\* create or to write the file ends the run with that error.
C40_PlaylistThenPlayer ==
    [][(DispatchStep /\ call'.name = PlaylistTool
          /\ required(PlaylistTool) \subseteq call'.args)
          => LET effects == playlist_effects'
                 spawns == SpawnsOf(effects)
                 k == Len(spawns)
             IN  /\ effects[1].op = "create"
                 /\ ~effects[1].ok
                      => /\ Len(effects) = 1
                         /\ pc' = "done"
                         /\ result' = Err("FileCreate")
                         /\ conversation_history' = conversation_history
                 /\ effects[1].ok
                      => /\ effects[2].op = "write"
                         /\ effects = SubSeq(effects, 1, 2) \o spawns
                         /\ ~effects[2].ok
                              => /\ k = 0
                                 /\ pc' = "done"
                                 /\ result' = Err("FileWrite")
                                 /\ conversation_history' =
                                       conversation_history
                         /\ effects[2].ok
                              => /\ k >= 1
                                 /\ \A i \in 1..k :
                                       /\ spawns[i].what = vlc_commands[i]
                                       /\ i < k => ~spawns[i].ok
                                 /\ ~spawns[k].ok => k = 4
                                 /\ toolResult' = "playlist_confirmation"
                                 /\ conversation_history' =
                                       PushCallAndResponse(PlaylistTool)
                                 /\ iteration < max_iterations
                                      => pc' = "llm" /\ result' = NoResult]_vars

\* C40 witness: the playlist was written, none of the four commands spawned,
\* and the next request is out with the tool's response
C40_Witness ==
    /\ pc = "llm"
    /\ Len(playlist_effects) = 6
    /\ \A i \in 3..6 : ~playlist_effects[i].ok
    /\ toolResult = "playlist_confirmation"
    /\ conversation_history[Len(conversation_history)] =
          Content("user", "FunctionResponse", PlaylistTool)

Digits == {"0", "1", "2", "3", "4", "5", "6", "7", "8", "9"}

\* t contains one of the six chronology keywords, in any case of letters
HasChronologyKeyword(t) ==
    \E kw \in {<<"e", "p", "i", "s", "o", "d", "e">>,
               <<"f", "o", "l", "g", "e">>,
               <<"s", "t", "a", "f", "f", "e", "l">>,
               <<"s", "e", "a", "s", "o", "n">>,
               <<"e", "r", "s", "t", "a", "u", "s", "s", "t", "r", "a", "h", "l", "u", "n", "g">>,
               <<"a", "u", "s", "g", "e", "s", "t", "r", "a", "h", "l", "t">>} :
        \E i \in 0..(Len(t) - Len(kw)) :
            \A k \in 1..Len(kw) : LowerChar(t[i + k]) = kw[k]

\* t contains a year token: four digits with no digit before or after them
HasYearToken(t) ==
    \E i \in 0..(Len(t) - 4) :
        /\ \A k \in 1..4 : t[i + k] \in Digits
        /\ i = 0 \/ t[i] \notin Digits
        /\ i + 4 = Len(t) \/ t[i + 5] \notin Digits

\* C33 (as claimed): a block is kept if and only if it is longer than 15 and
\* contains a chronology keyword, in any case of letters, or a 4-digit year
\* token, or is longer than 30; every block of length at most 15 is dropped,
\* every block longer than 30 is kept. The length is the one the code
\* measures, in bytes.
C33_FilterClaim ==
    block_kept.status = "ok" =>
       /\ block_kept.kept <=>
             /\ str_len(block_text) > 15
             /\ \/ HasChronologyKeyword(block_text)
                \/ HasYearToken(block_text)
                \/ str_len(block_text) > 30
       /\ str_len(block_text) <= 15 => ~block_kept.kept
       /\ str_len(block_text) > 30 => block_kept.kept

====
